---- MODULE Spec2Model ----
(***************************************************************************)
(* Attendance and payroll backend (darkside779/attendance).                *)
(*                                                                         *)
(* Units.  A timestamp is a number of seconds since 00:00:00 of day 0,     *)
(* and day 0 is a Monday.  A calendar date is a day index; the code keeps  *)
(* it as a zero-padded 'YYYY-MM-DD' string, whose equality and             *)
(* lexicographic order are those of the day index.  A float of hours is    *)
(* kept as a number of seconds (hours * 3600), a time of day of a shift as *)
(* minutes since midnight, an amount of money as cents.                    *)
(***************************************************************************)
EXTENDS Integers, Sequences, FiniteSets, TLC

VARIABLES
    attendance,       \* table attendance: sequence of rows, row id = index
    modifications,    \* table attendance_modifications, in insertion order
    shifts,           \* table shifts: sequence of rows, row id = index
    employees,        \* table employees: function id -> row
    salary_rules,     \* table salary_rules: sequence of rows
    payroll_periods,  \* table payroll_periods: function id -> row
    payroll_records,  \* table payroll_records: sequence of rows
    last,             \* what the last call did and returned
    pc,               \* position of each concurrent check-in request
    now,              \* the clock: datetime.now()
    system_locks      \* table system_locks: sequence of rows

vars == <<attendance, shifts, employees, modifications, salary_rules, payroll_periods,
          payroll_records, last, pc, now, system_locks>>

---------------------------------------------------------------------------
\* Bounds of the model.
MaxRecords == 2
MaxDay == 1
NumProcs == 2
MaxRules == 2
MaxRuns == 2
MaxMods == 2

EmployeeIds == {1, 2}
Days == 0..MaxDay
Procs == 1..NumProcs

---------------------------------------------------------------------------
\* Time.
HMS(h, m, s) == h * 3600 + m * 60 + s
DayLength == HMS(24, 0, 0)
At(d, tod) == d * DayLength + tod

\* datetime.date(), kept as the day index
DateOf(t) == t \div DayLength
\* datetime.time(), seconds since midnight
TimeOf(t) == t % DayLength

WeekdayNames ==
    <<"monday", "tuesday", "wednesday", "thursday", "friday", "saturday", "sunday">>
\* date.weekday(): Monday = 0 .. Sunday = 6
Weekday(d) == d % 7
\* check_in_time.strftime('%A').lower()
DayName(d) == WeekdayNames[Weekday(d) + 1]

\* str.lower() on the spellings of weekday names the model stores
Lower(name) ==
    CASE name = "Monday" -> "monday"
      [] name = "Tuesday" -> "tuesday"
      [] name = "Wednesday" -> "wednesday"
      [] name = "Thursday" -> "thursday"
      [] name = "Friday" -> "friday"
      [] name = "Saturday" -> "saturday"
      [] name = "Sunday" -> "sunday"
      [] OTHER -> name

\* None of a nullable DateTime column, and of a nullable foreign key
NoTime == -1
NoShift == 0

---------------------------------------------------------------------------
\* Shifts.
Range(s) == {s[i] : i \in DOMAIN s}

\* A shift row.  employee_id = 0 is NULL (a template).  days_of_week is the
\* stored JSON text: parses tells whether json.loads accepts it, list is
\* the list it yields.
ShiftRow(e, name, start, end, parses, list, active) ==
    [employee_id |-> e, shift_name |-> name, start_time |-> start,
     end_time |-> end,
     days_of_week |-> [parses |-> parses, list |-> list],
     is_active |-> active]

HM(h, m) == h * 60 + m
HourOf(tm) == tm \div 60
MinuteOf(tm) == tm % 60

\* ShiftService.get_shifts_by_employee: the active shifts owned by e; the
\* mutant takes the deleted ones as well.
GetShiftsMutantDeleted(shs, e) ==
    {i \in DOMAIN shs : shs[i].employee_id = e}
get_shifts_by_employee(shs, e) ==
    {i \in DOMAIN shs : shs[i].employee_id = e /\ shs[i].is_active}

\* The test of the loop body of get_employee_current_shift: the stored list
\* parses and holds the day, compared in lower case.
ShiftCoversDay(sh, day) ==
    /\ sh.days_of_week.parses
    /\ Lower(day) \in {Lower(x) : x \in Range(sh.days_of_week.list)}

\* ShiftService.get_employee_current_shift: the shifts the loop may return.
\* The query has no ORDER BY, so any matching shift may be the first one.
CurrentShiftCandidates(shs, e, day) ==
    {i \in get_shifts_by_employee(shs, e) : ShiftCoversDay(shs[i], day)}

---------------------------------------------------------------------------
\* Attendance.

\* The query of check_in_employee (lines 33-39) and of check_out_employee
\* (lines 104-110): the rows of employee e dated d whose check_out is NULL.
OpenRecordsMutantClosed(att, e, d) ==
    {i \in DOMAIN att :
        /\ att[i].employee_id = e
        /\ att[i].date = d
        /\ att[i].check_out # NoTime}
OpenRecordsMutantAnyDate(att, e, d) ==
    {i \in DOMAIN att : att[i].employee_id = e /\ att[i].check_out = NoTime}
OpenRecordsMutantAnyState(att, e, d) ==
    {i \in DOMAIN att : att[i].employee_id = e /\ att[i].date = d}
OpenRecords(att, e, d) ==
    {i \in DOMAIN att :
        /\ att[i].employee_id = e
        /\ att[i].date = d
        /\ att[i].check_out = NoTime}

\* late_threshold.replace(minute=late_threshold.minute + 15) raises
\* ValueError when the minute leaves 0..59.
ReplaceMinuteRaises(start) == MinuteOf(start) + 15 > 59

\* The time of day of late_threshold, in seconds: the shift start parsed from
\* '%H:%M' (seconds 0) with its minute field replaced by minute + 15.
LateThreshold(start) == HMS(HourOf(start), MinuteOf(start) + 15, 0)

\* check_in_time_only > late_threshold.time()
IsLateMutantInclusive(start, t) == TimeOf(t) >= LateThreshold(start)
IsLate(start, t) == TimeOf(t) > LateThreshold(start)

\* The status check_in_employee gives a new row (lines 52-67); s is the
\* resolved shift id or NoShift.
CheckInStatus(shs, s, t) ==
    IF s # NoShift /\ IsLate(shs[s].start_time, t) THEN "late" ELSE "present"

\* What get_employee_current_shift may return for e on that day.
ResolvedShifts(shs, e, day) ==
    IF CurrentShiftCandidates(shs, e, day) = {}
    THEN {NoShift}
    ELSE CurrentShiftCandidates(shs, e, day)

\* Text values: the strings that modify_attendance receives, stores and
\* compares.  A string is None, a word, a 'YYYY-MM-DDTHH:MM' stamp (fmt "T";
\* seconds that are not a whole minute stand for a trailing ':SS') or a
\* 'YYYY-MM-DD HH:MM:SS' stamp (fmt "S").
Null == [fmt |-> "null", day |-> 0, sec |-> 0, text |-> ""]
Word(w) == [fmt |-> "word", day |-> 0, sec |-> 0, text |-> w]
LocalStamp(d, s) == [fmt |-> "T", day |-> d, sec |-> s, text |-> ""]
StdStamp(d, s) == [fmt |-> "S", day |-> d, sec |-> s, text |-> ""]

\* Attendance(employee_id, shift_id, check_in, date, status) with the column
\* defaults of the model (total_hours 0.0, overtime_hours 0.0).
NewAttendance(e, s, t, status) ==
    [employee_id |-> e, shift_id |-> s, check_in |-> t, check_out |-> NoTime,
     total_hours |-> 0, overtime_hours |-> 0, date |-> DateOf(t),
     status |-> status, notes |-> Null]

\* round(x, 2) of a float of hours: hundredths of an hour, nearest, ties to
\* even.  One hundredth of an hour is 36 seconds.
Round2(x) ==
    LET n == x \div 36
        r == x % 36
    IN IF r > 18 \/ (r = 18 /\ n % 2 = 1) THEN n + 1 ELSE n

\* The record `last` keeps of a call.
Result(op, e, t, outcome, id, status, total, regular, overtime) ==
    [op |-> op, employee_id |-> e, time |-> t, outcome |-> outcome,
     attendance_id |-> id, status |-> status,
     total_hours |-> total, regular_hours |-> regular,
     overtime_hours |-> overtime,
     response |-> [total_hours |-> Round2(total),
                   regular_hours |-> Round2(regular),
                   overtime_hours |-> Round2(overtime)]]

NoResult == Result("none", 0, 0, "none", 0, "none", 0, 0, 0)

\* existing_attendance = query.first() of check_in_employee (lines 33-39):
\* the id of an open row, or 0 for None.  There is no ORDER BY.
FirstOpen(att, e, d) ==
    IF OpenRecords(att, e, d) = {} THEN {0} ELSE OpenRecords(att, e, d)

\* check_in_employee from line 41 on, given what the query returned.
check_in_finish(e, t, existing) ==
    \/ \* an open row was found: success False
       /\ existing # 0
       /\ last' = Result("check_in", e, t, "rejected", existing, "none", 0, 0, 0)
       /\ UNCHANGED attendance
    \/ \* the late threshold cannot be built: ValueError leaves the method
       /\ existing = 0
       /\ \E s \in ResolvedShifts(shifts, e, DayName(DateOf(t))) :
            /\ s # NoShift
            /\ ReplaceMinuteRaises(shifts[s].start_time)
       /\ last' = Result("check_in", e, t, "raised", 0, "none", 0, 0, 0)
       /\ UNCHANGED attendance
    \/ \* the row is added and committed
       /\ existing = 0
       /\ Len(attendance) < MaxRecords
       /\ \E s \in ResolvedShifts(shifts, e, DayName(DateOf(t))) :
            /\ s # NoShift => ~ReplaceMinuteRaises(shifts[s].start_time)
            /\ attendance' = Append(attendance,
                    NewAttendance(e, s, t, CheckInStatus(shifts, s, t)))
            /\ last' = Result("check_in", e, t, "ok", Len(attendance) + 1,
                    CheckInStatus(shifts, s, t), 0, 0, 0)

\* AttendanceService.check_in_employee(employee_id, check_in_time), run
\* without interruption.
check_in_employee(e, t) ==
    \E existing \in FirstOpen(attendance, e, DateOf(t)) :
        check_in_finish(e, t, existing)

\* The expected shift duration of check_out_employee (lines 133-140), in
\* seconds; the mutant lacks the overnight branch of lines 137-138.
ShiftDurationMutantNoWrap(start, end) ==
    HMS(HourOf(end), MinuteOf(end), 0) - HMS(HourOf(start), MinuteOf(start), 0)
ShiftDuration(start, end) ==
    IF end < start
    THEN (HMS(24, 0, 0) - HMS(HourOf(start), MinuteOf(start), 0))
            + HMS(HourOf(end), MinuteOf(end), 0)
    ELSE HMS(HourOf(end), MinuteOf(end), 0)
            - HMS(HourOf(start), MinuteOf(start), 0)

\* Whether check_out_employee finds the shift of the row (lines 129-131).
HasShift(shs, row) == row.shift_id # NoShift /\ row.shift_id \in DOMAIN shs

\* overtime_hours and regular_hours of check_out_employee (lines 126-144).
HoursSplitMutantNoCap(shs, row, total) ==
    [overtime |-> 0, regular |-> total]
HoursSplit(shs, row, total) ==
    IF /\ HasShift(shs, row)
       /\ total > ShiftDuration(shs[row.shift_id].start_time,
                                shs[row.shift_id].end_time)
    THEN [overtime |-> total - ShiftDuration(shs[row.shift_id].start_time,
                                             shs[row.shift_id].end_time),
          regular |-> ShiftDuration(shs[row.shift_id].start_time,
                                    shs[row.shift_id].end_time)]
    ELSE [overtime |-> 0, regular |-> total]

\* AttendanceService.check_out_employee(employee_id, check_out_time)
check_out_employee(e, t) ==
    \/ \* no open row dated today: success False
       /\ OpenRecords(attendance, e, DateOf(t)) = {}
       /\ last' = Result("check_out", e, t, "rejected", 0, "none", 0, 0, 0)
       /\ UNCHANGED attendance
    \/ \* the first open row is closed and its hours are written
       \E a \in OpenRecords(attendance, e, DateOf(t)) :
         LET total == t - attendance[a].check_in
             split == HoursSplit(shifts, attendance[a], total)
         IN /\ attendance' = [attendance EXCEPT
                    ![a].check_out = t,
                    ![a].total_hours = total,
                    ![a].overtime_hours = split.overtime]
            /\ last' = Result("check_out", e, t, "ok", a, "none", total,
                              split.regular, split.overtime)

---------------------------------------------------------------------------
\* Attendance modification with audit trail.

\* str(value) of a datetime column
StrOfDatetime(t) == StdStamp(DateOf(t), TimeOf(t))

\* old_value of modify_attendance (lines 35-37): getattr, then str unless
\* None.
OldValue(row, field) ==
    CASE field = "check_in" -> StrOfDatetime(row.check_in)
      [] field = "check_out" ->
            IF row.check_out = NoTime THEN Null
            ELSE StrOfDatetime(row.check_out)
      [] field = "status" -> Word(row.status)
      [] field = "notes" -> row.notes

\* `new_value and new_value != 'None'` (line 42)
IsSetValue(v) == v # Null /\ v # Word("") /\ v # Word("None")

\* Whether the strptime of lines 45-49 accepts the string: the 'T' format
\* takes hours and minutes only, the standard one takes seconds.
StrptimeAccepts(v) ==
    \/ v.fmt = "T" /\ v.sec % 60 = 0
    \/ v.fmt = "S"

\* The datetime strptime returns.
Strptime(v) == At(v.day, v.sec)

\* AttendanceModificationService._recalculate_total_hours; the mutant
\* leaves total_hours as it was.
RecalculateMutantKeep(row) == row
_recalculate_total_hours(row) ==
    IF row.check_in # NoTime /\ row.check_out # NoTime
    THEN [row EXCEPT !.total_hours = row.check_out - row.check_in]
    ELSE [row EXCEPT !.total_hours = 0]

\* The row after lines 39-61, for a field and a value the update accepts.
ModifiedRow(row, field, v) ==
    CASE field = "check_in" ->
            _recalculate_total_hours([row EXCEPT !.check_in = Strptime(v)])
      [] field = "check_out" ->
            _recalculate_total_hours([row EXCEPT !.check_out =
                IF IsSetValue(v) THEN Strptime(v) ELSE NoTime])
      [] field = "status" -> [row EXCEPT !.status = v.text]
      [] field = "notes" -> [row EXCEPT !.notes = v]

\* Whether modify_attendance returns False: the record is not found
\* (line 31), the date does not parse (line 51), or the commit refuses a
\* NULL check_in, a column that is not nullable (line 78).
ModifyFails(att, req) ==
    \/ req.attendance_id \notin DOMAIN att
    \/ /\ req.field_name \in {"check_in", "check_out"}
       /\ IsSetValue(req.new_value)
       /\ ~StrptimeAccepts(req.new_value)
    \/ /\ req.field_name = "check_in"
       /\ ~IsSetValue(req.new_value)

\* AttendanceModification(...) of lines 64-71
ModificationRowMutantNewAsOld(att, req, user) ==
    [attendance_id |-> req.attendance_id, modified_by |-> user,
     field_changed |-> req.field_name, old_value |-> req.new_value,
     new_value |-> req.new_value, reason |-> req.reason]
ModificationRow(att, req, user) ==
    [attendance_id |-> req.attendance_id, modified_by |-> user,
     field_changed |-> req.field_name,
     old_value |-> OldValue(att[req.attendance_id], req.field_name),
     new_value |-> req.new_value, reason |-> req.reason]

\* What one modify_attendance call leaves in the two tables, and what it
\* returns.
ModifyOutcome(att, mods, req, user) ==
    IF ModifyFails(att, req)
    THEN [ok |-> FALSE, attendance |-> att, modifications |-> mods]
    ELSE [ok |-> TRUE,
          attendance |-> [att EXCEPT ![req.attendance_id] =
                ModifiedRow(@, req.field_name, req.new_value)],
          modifications |-> Append(mods, ModificationRow(att, req, user))]

\* AttendanceModificationService.modify_attendance
modify_attendance(req, user) ==
    LET r == ModifyOutcome(attendance, modifications, req, user)
    IN /\ attendance' = r.attendance
       /\ modifications' = r.modifications
       /\ last' = [op |-> "modify_attendance",
                   outcome |-> IF r.ok THEN "ok" ELSE "failed"]

\* The loop of bulk_modify_attendance (lines 150-168) over the requests
\* from the first on, each call committing on its own; errors holds the
\* attendance id named by each message.  The mutant gives up at the first
\* request that fails.
RECURSIVE BulkOutcomeMutantAbort(_, _, _, _)
BulkOutcomeMutantAbort(att, mods, reqs, user) ==
    IF reqs = <<>>
    THEN [attendance |-> att, modifications |-> mods,
          success_count |-> 0, failure_count |-> 0, errors |-> <<>>]
    ELSE LET r == ModifyOutcome(att, mods, Head(reqs), user)
         IN  IF r.ok
             THEN [BulkOutcomeMutantAbort(r.attendance, r.modifications,
                                          Tail(reqs), user)
                    EXCEPT !.success_count = @ + 1]
             ELSE [attendance |-> att, modifications |-> mods,
                   success_count |-> 0, failure_count |-> 1,
                   errors |-> <<Head(reqs).attendance_id>>]

RECURSIVE BulkOutcome(_, _, _, _)
BulkOutcome(att, mods, reqs, user) ==
    IF reqs = <<>>
    THEN [attendance |-> att, modifications |-> mods,
          success_count |-> 0, failure_count |-> 0, errors |-> <<>>]
    ELSE LET r == ModifyOutcome(att, mods, Head(reqs), user)
             rest == BulkOutcome(r.attendance, r.modifications,
                                 Tail(reqs), user)
         IN [rest EXCEPT
                !.success_count = @ + (IF r.ok THEN 1 ELSE 0),
                !.failure_count = @ + (IF r.ok THEN 0 ELSE 1),
                !.errors = IF r.ok THEN @
                           ELSE <<Head(reqs).attendance_id>> \o @]

\* AttendanceModificationService.bulk_modify_attendance
bulk_modify_attendance(reqs, user) ==
    LET r == BulkOutcome(attendance, modifications, reqs, user)
    IN /\ attendance' = r.attendance
       /\ modifications' = r.modifications
       /\ last' = [op |-> "bulk_modify_attendance", outcome |-> "ok",
                   success_count |-> r.success_count,
                   failure_count |-> r.failure_count,
                   errors |-> r.errors]

---------------------------------------------------------------------------
\* The stored state the attendance operations start from.

AllWeek ==
    <<"monday", "tuesday", "wednesday", "thursday", "friday", "saturday", "sunday">>

\* Shift tables as create_shift and assign_shift_to_employee leave them: a
\* template, employee 1 on the template's hours (one day name capitalised),
\* employee 2 on a shift that starts at minute 50, on Tuesdays only.
DayShiftTable ==
    <<ShiftRow(0, "Morning", HM(9, 0), HM(17, 0), TRUE, AllWeek, TRUE),
      ShiftRow(1, "Morning", HM(9, 0), HM(17, 0), TRUE,
               <<"Monday", "tuesday", "wednesday">>, TRUE),
      ShiftRow(2, "Early", HM(8, 50), HM(16, 50), TRUE, <<"tuesday">>, TRUE)>>

\* Employee 1 on a night shift across midnight, employee 2 as before.
NightShiftTable ==
    <<ShiftRow(0, "Night", HM(22, 0), HM(6, 0), TRUE, AllWeek, TRUE),
      ShiftRow(1, "Night", HM(22, 0), HM(6, 0), TRUE, AllWeek, TRUE),
      ShiftRow(2, "Early", HM(8, 50), HM(16, 50), TRUE, <<"tuesday">>, TRUE)>>

ShiftTables == {DayShiftTable, NightShiftTable}

\* An employee row: the columns the payroll reads.
EmployeeRow(salary, dept, pos, active) ==
    [salary_rate |-> salary, department |-> dept, position |-> pos,
     is_active |-> active]

\* Monthly salary 1600.00, in cents.
DefaultEmployees ==
    [i \in EmployeeIds |-> EmployeeRow(160000, "IT", "Engineer", TRUE)]

IdlePc == [p \in Procs |-> [at |-> "idle", employee_id |-> 0, time |-> 0,
                            existing |-> 0, outcome |-> "none"]]

\* The times of day at which requests arrive.
TimesOfDay == {HMS(9, 0, 0), HMS(9, 15, 1), HMS(19, 0, 0)}
Instants == {At(d, tod) : d \in Days, tod \in TimesOfDay}

SetMin(S) == CHOOSE x \in S : \A y \in S : x <= y

NoPayroll ==
    /\ salary_rules = <<>>
    /\ payroll_periods = <<>>
    /\ payroll_records = <<>>

Init ==
    /\ attendance = <<>>
    /\ shifts \in ShiftTables
    /\ employees = DefaultEmployees
    /\ modifications = <<>>
    /\ NoPayroll
    /\ last = NoResult
    /\ system_locks = <<>>
    /\ pc = IdlePc
    /\ now = SetMin(Instants)

\* The clock moves on to the next of the instants S at which requests arrive.
TickOver(S) ==
    /\ \E t \in S :
         /\ t > now
         /\ \A u \in S : u > now => t <= u
         /\ now' = t
    /\ UNCHANGED <<attendance, shifts, employees, modifications, salary_rules,
                   payroll_periods, payroll_records, last, pc, system_locks>>

Tick == TickOver(Instants)

\* A check-in request: check_in_employee(employee_id) at datetime.now()
CheckIn ==
    /\ \E e \in EmployeeIds : check_in_employee(e, now)
    /\ UNCHANGED <<shifts, employees, modifications, salary_rules, payroll_periods,
                   payroll_records, pc, now, system_locks>>

\* A check-out request: check_out_employee(employee_id) at datetime.now()
CheckOut ==
    /\ \E e \in EmployeeIds : check_out_employee(e, now)
    /\ UNCHANGED <<shifts, employees, modifications, salary_rules, payroll_periods,
                   payroll_records, pc, now, system_locks>>

Next == CheckIn \/ CheckOut \/ Tick

Spec == Init /\ [][Next]_vars

---------------------------------------------------------------------------
\* Concurrent check-in requests: each request runs check_in_employee in its
\* own session, so the query (lines 33-39) and the insert with its commit
\* (lines 70-79) of one request may have steps of other requests between
\* them.  The table has no unique constraint on (employee_id, date).

\* Request p starts and runs the query.
CheckInQuery(p) ==
    /\ pc[p].at = "idle"
    /\ \E e \in EmployeeIds :
         \E existing \in FirstOpen(attendance, e, DateOf(now)) :
            pc' = [pc EXCEPT ![p] = [at |-> "queried", employee_id |-> e,
                                     time |-> now, existing |-> existing,
                                     outcome |-> "none"]]
    /\ UNCHANGED <<attendance, shifts, employees, modifications, salary_rules,
                   payroll_periods, payroll_records, last, now, system_locks>>

\* Request p goes on from the result of its query to its return.
CheckInCommit(p) ==
    /\ pc[p].at = "queried"
    /\ check_in_finish(pc[p].employee_id, pc[p].time, pc[p].existing)
    /\ pc' = [pc EXCEPT ![p].at = "done", ![p].outcome = last'.outcome]
    /\ UNCHANGED <<shifts, employees, modifications, salary_rules, payroll_periods,
                   payroll_records, now, system_locks>>

ConcQuery == \E p \in Procs : CheckInQuery(p)
ConcCommit == \E p \in Procs : CheckInCommit(p)

NextConc == ConcQuery \/ ConcCommit \/ Tick

SpecConc == Init /\ [][NextConc]_vars

---------------------------------------------------------------------------
\* The lateness rule over every shift start of the day.

MinutesOfDay == 0..(HM(24, 0) - 1)

\* Employee 1 on one shift that starts at minute `start` of the day and lasts
\* eight hours; employee 2 has no shift.
ProbeShiftTable(start) ==
    <<ShiftRow(1, "Probe", start, (start + HM(8, 0)) % HM(24, 0), TRUE,
               AllWeek, TRUE)>>

\* Midnight of day 0 and the seconds around the shift start plus 15 minutes.
LateInstants ==
    {At(0, 0)} \cup
    {At(0, tod) : tod \in
        {HMS(0, shifts[1].start_time + 15, k) : k \in {-1, 0, 1}}
            \cap (0..(DayLength - 1))}

InitLate ==
    /\ attendance = <<>>
    /\ \E start \in MinutesOfDay : shifts = ProbeShiftTable(start)
    /\ employees = DefaultEmployees
    /\ modifications = <<>>
    /\ NoPayroll
    /\ last = NoResult
    /\ system_locks = <<>>
    /\ pc = IdlePc
    /\ now = At(0, 0)

TickLate == TickOver(LateInstants)

NextLate == CheckIn \/ TickLate

SpecLate == InitLate /\ [][NextLate]_vars

---------------------------------------------------------------------------
\* Check-in, check-out and the modification of attendance rows by an
\* administrator.

\* The values posted for a field: for check_in a 'T' stamp and 'None'; for
\* check_out a standard stamp, a 'T' stamp with seconds, and 'None'.
ValuesFor(field) ==
    CASE field = "check_in" -> {LocalStamp(0, HMS(8, 0, 0)), Word("None")}
      [] field = "check_out" ->
            {StdStamp(0, HMS(20, 0, 0)), LocalStamp(0, HMS(8, 0, 30)),
             Word("None")}
      [] field = "status" -> {Word("absent"), Word("on_leave")}
      [] field = "notes" -> {Word("forgot badge")}

ModifiableFields == {"check_in", "check_out", "status", "notes"}

\* AttendanceModificationRequest bodies for one attendance id.
RequestBodies(a) ==
    UNION {{[attendance_id |-> a, field_name |-> f, new_value |-> v,
             reason |-> "correction"] : v \in ValuesFor(f)} :
           f \in ModifiableFields}

\* The requests posted: for the ids of the stored rows and for one id that
\* is not stored.
ModificationRequests(att) ==
    UNION {RequestBodies(a) : a \in 1..(Len(att) + 1)}

AdminUser == 1

\* The row check_in_employee at t_in leaves.
OpenAttendance(shs, e, t_in) ==
    LET s == CHOOSE x \in ResolvedShifts(shs, e, DayName(DateOf(t_in))) : TRUE
    IN NewAttendance(e, s, t_in, CheckInStatus(shs, s, t_in))

\* The row check_in_employee at t_in and check_out_employee at t_out leave.
ClosedAttendance(shs, e, t_in, t_out) ==
    LET row == OpenAttendance(shs, e, t_in)
    IN [row EXCEPT !.check_out = t_out,
                   !.total_hours = t_out - t_in,
                   !.overtime_hours = HoursSplit(shs, row, t_out - t_in).overtime]

\* The attendance of the morning of day 0: nobody came; employee 1 is in
\* since 09:00; employee 1 came at 09:20 and left at 17:00; or that and
\* employee 2, who has no shift on that day, is in since 09:00.
MorningTables ==
    {<<>>,
     <<OpenAttendance(DayShiftTable, 1, At(0, HMS(9, 0, 0)))>>,
     <<ClosedAttendance(DayShiftTable, 1, At(0, HMS(9, 20, 0)),
                        At(0, HMS(17, 0, 0)))>>,
     <<ClosedAttendance(DayShiftTable, 1, At(0, HMS(9, 20, 0)),
                        At(0, HMS(17, 0, 0))),
       OpenAttendance(DayShiftTable, 2, At(0, HMS(9, 0, 0)))>>}

\* The administrator works in the evening of day 0.
InitModify ==
    /\ attendance \in MorningTables
    /\ shifts = DayShiftTable
    /\ employees = DefaultEmployees
    /\ modifications = <<>>
    /\ NoPayroll
    /\ last = NoResult
    /\ system_locks = <<>>
    /\ pc = IdlePc
    /\ now = At(0, HMS(19, 0, 0))

ModifyAttendance ==
    /\ Len(modifications) < MaxMods
    /\ \E req \in ModificationRequests(attendance) :
            modify_attendance(req, AdminUser)
    /\ UNCHANGED <<shifts, employees, salary_rules, payroll_periods,
                   payroll_records, pc, now, system_locks>>

\* The lists posted to the bulk route: two requests on one field of one
\* row.
BulkRequestLists(att) ==
    UNION {{<<[attendance_id |-> a, field_name |-> f, new_value |-> v[1],
               reason |-> "correction"],
              [attendance_id |-> a, field_name |-> f, new_value |-> v[2],
               reason |-> "correction"]>> :
                a \in 1..(Len(att) + 1),
                v \in ValuesFor(f) \X ValuesFor(f)} :
           f \in ModifiableFields}

BulkModifyAttendance ==
    /\ Len(modifications) + 2 <= MaxMods
    /\ \E reqs \in BulkRequestLists(attendance) :
            bulk_modify_attendance(reqs, AdminUser)
    /\ UNCHANGED <<shifts, employees, salary_rules, payroll_periods,
                   payroll_records, pc, now, system_locks>>

NextModify ==
    CheckIn \/ CheckOut \/ ModifyAttendance \/ BulkModifyAttendance

SpecModify == InitModify /\ [][NextModify]_vars

\* The administrator's modifications alone, on the attendance of the
\* morning.
NextAudit == ModifyAttendance \/ BulkModifyAttendance

SpecAudit == InitModify /\ [][NextAudit]_vars

---------------------------------------------------------------------------
\* Payroll.  Money is in cents, a percentage and a rate multiplier are in
\* hundredths (10 % is 10, a multiplier of 1.5 is 150).

\* Float division.  The inputs the model draws keep every quotient exact;
\* an inexact one is an evaluation error.
Div(a, b) == IF a % b = 0 THEN a \div b ELSE a \div 0

\* Program constants of payroll_service.py.
MonthlyHours == 160
StandardHoursPerDay == 8
DefaultOvertimeMultiplier == 150
LatePenaltyPerDay == 5000

\* Sum of f over a finite set of indices.
RECURSIVE SumOver(_, _)
SumOver(S, f) ==
    IF S = {} THEN 0
    ELSE LET x == CHOOSE y \in S : TRUE IN f[x] + SumOver(S \ {x}, f)

\* attendance_records of calculate_employee_payroll (lines 46-52): the rows
\* of the employee dated within the period.
AttendanceInPeriod(att, e, period) ==
    {i \in DOMAIN att :
        /\ att[i].employee_id = e
        /\ att[i].date >= period.start_date
        /\ att[i].date <= period.end_date}

\* expected_working_days (lines 182-189): the Monday-to-Friday dates from
\* start to end inclusive.
ExpectedWorkingDays(start, end) ==
    Cardinality({d \in start..end : Weekday(d) < 5})

\* record.check_in.time() > 09:00 (line 199)
CheckedInAfterNine(row) == TimeOf(row.check_in) > HMS(9, 0, 0)

\* PayrollService._calculate_work_statistics
_calculate_work_statistics(att, rows, start, end) ==
    LET worked == {i \in rows : att[i].check_in # NoTime}
        total == SumOver(worked, [i \in worked |-> att[i].total_hours])
        expected_days == ExpectedWorkingDays(start, end)
        expected == expected_days * HMS(StandardHoursPerDay, 0, 0)
    IN [total_hours |-> total,
        regular_hours |-> IF total <= expected THEN total ELSE expected,
        overtime_hours |-> IF total - expected >= 0 THEN total - expected ELSE 0,
        days_worked |-> Cardinality(worked),
        days_absent |-> IF expected_days - Cardinality(worked) >= 0
                        THEN expected_days - Cardinality(worked) ELSE 0,
        days_late |-> Cardinality({i \in worked : CheckedInAfterNine(att[i])})]

\* PayrollService._calculate_hourly_rate
HourlyRateMutantPerHundred(monthly_salary) ==
    IF monthly_salary = 0 THEN 0 ELSE Div(monthly_salary, 100)
_calculate_hourly_rate(monthly_salary) ==
    IF monthly_salary = 0 THEN 0 ELSE Div(monthly_salary, MonthlyHours)

\* hours * rate, the hours being kept in seconds
HoursTimes(hours, rate) == Div(hours * rate, HMS(1, 0, 0))

\* A salary rule row; 0 stands for an unset (None) amount, which the code
\* treats like 0 everywhere (`if rule.x:`, `rule.x or d`), "" for an unset
\* filter.
RuleRow(type, mult, fixed, pct, all, dept, pos) ==
    [rule_type |-> type, rate_multiplier |-> mult, fixed_amount |-> fixed,
     percentage |-> pct, applies_to_all |-> all, department_filter |-> dept,
     position_filter |-> pos, is_active |-> TRUE]

\* PayrollService._rule_applies_to_employee
_rule_applies_to_employee(rule, emp) ==
    IF rule.applies_to_all THEN TRUE
    ELSE IF rule.department_filter # "" /\ emp.department # rule.department_filter
         THEN FALSE
    ELSE IF rule.position_filter # "" /\ emp.position # rule.position_filter
         THEN FALSE
    ELSE TRUE

\* PayrollService._apply_overtime_rule
_apply_overtime_rule(rule, rec) ==
    IF rec.overtime_hours > 0
    THEN [rec EXCEPT !.overtime_pay =
            HoursTimes(rec.overtime_hours,
                Div(rec.hourly_rate *
                    (IF rule.rate_multiplier # 0 THEN rule.rate_multiplier
                     ELSE DefaultOvertimeMultiplier), 100))]
    ELSE rec

\* PayrollService._apply_tax_rule
_apply_tax_rule(rule, rec) ==
    IF rule.percentage # 0
    THEN [rec EXCEPT !.tax_deduction =
            Div((rec.regular_pay + rec.overtime_pay + rec.bonus)
                    * rule.percentage, 100)]
    ELSE IF rule.fixed_amount # 0
    THEN [rec EXCEPT !.tax_deduction = rule.fixed_amount]
    ELSE rec

\* PayrollService._apply_bonus_rule
_apply_bonus_rule(rule, rec) ==
    IF rule.fixed_amount # 0
    THEN [rec EXCEPT !.bonus = @ + rule.fixed_amount]
    ELSE IF rule.percentage # 0
    THEN [rec EXCEPT !.bonus =
            @ + Div((rec.regular_pay + rec.overtime_pay) * rule.percentage, 100)]
    ELSE rec

\* The first half of _apply_deduction_rule (lines 285-289)
AccumulateDeduction(rule, rec) ==
    IF rule.fixed_amount # 0
    THEN [rec EXCEPT !.other_deductions = @ + rule.fixed_amount]
    ELSE IF rule.percentage # 0
    THEN [rec EXCEPT !.other_deductions =
            @ + Div((rec.regular_pay + rec.overtime_pay) * rule.percentage, 100)]
    ELSE rec

\* PayrollService._apply_deduction_rule
_apply_deduction_rule(rule, rec) ==
    LET r1 == AccumulateDeduction(rule, rec)
        r2 == IF r1.days_late > 0
              THEN [r1 EXCEPT !.late_penalty = r1.days_late * rule.fixed_amount]
              ELSE r1
    IN IF r2.days_absent > 0
       THEN [r2 EXCEPT !.absence_deduction =
                r2.days_absent * (r2.hourly_rate * StandardHoursPerDay)]
       ELSE r2

\* The loop body of _apply_salary_rules for one rule (lines 234-245)
ApplyRule(rule, rec, emp) ==
    IF ~_rule_applies_to_employee(rule, emp) THEN rec
    ELSE IF rule.rule_type = "overtime" THEN _apply_overtime_rule(rule, rec)
    ELSE IF rule.rule_type = "tax" THEN _apply_tax_rule(rule, rec)
    ELSE IF rule.rule_type = "bonus" THEN _apply_bonus_rule(rule, rec)
    ELSE IF rule.rule_type = "deduction" THEN _apply_deduction_rule(rule, rec)
    ELSE rec

\* PayrollService._apply_salary_rules, the active rules being returned by
\* the store in the order `order` (a sequence of rule ids).
RECURSIVE _apply_salary_rules(_, _, _, _)
_apply_salary_rules(rules, order, rec, emp) ==
    IF order = <<>> THEN rec
    ELSE _apply_salary_rules(rules, Tail(order),
                             ApplyRule(rules[Head(order)], rec, emp), emp)

\* The orders in which the query of line 231 may return the active rules:
\* it has no ORDER BY.
ActiveRules(rules) == {i \in DOMAIN rules : rules[i].is_active}
RuleOrders(rules) ==
    {o \in [1..Cardinality(ActiveRules(rules)) -> ActiveRules(rules)] :
        \A i, j \in DOMAIN o : i # j => o[i] # o[j]}

\* PayrollRecord(...) of lines 66-89; runs counts the calculations of the
\* record (each one stamps calculated_at).
NewPayrollRecord(e, p) ==
    [employee_id |-> e, period_id |-> p,
     total_hours |-> 0, regular_hours |-> 0, overtime_hours |-> 0,
     days_worked |-> 0, days_absent |-> 0, days_late |-> 0,
     base_salary |-> 0, hourly_rate |-> 0, regular_pay |-> 0,
     overtime_pay |-> 0, bonus |-> 0, tax_deduction |-> 0,
     insurance_deduction |-> 0, other_deductions |-> 0, late_penalty |-> 0,
     absence_deduction |-> 0, gross_salary |-> 0, total_deductions |-> 0,
     net_salary |-> 0, runs |-> 0]

\* Lines 92-106: the work statistics and the basic pay are written.
WithBasicPay(rec, stats, emp) ==
    LET rate == _calculate_hourly_rate(emp.salary_rate)
    IN [rec EXCEPT
        !.total_hours = stats.total_hours,
        !.regular_hours = stats.regular_hours,
        !.overtime_hours = stats.overtime_hours,
        !.days_worked = stats.days_worked,
        !.days_absent = stats.days_absent,
        !.days_late = stats.days_late,
        !.base_salary = emp.salary_rate,
        !.hourly_rate = rate,
        !.regular_pay = HoursTimes(stats.regular_hours, rate),
        !.overtime_pay = HoursTimes(stats.overtime_hours,
                            Div(rate * DefaultOvertimeMultiplier, 100))]

\* Lines 111-114: the late penalty written after the rules.
WithLatePenaltyMutantKeepRule(rec) == rec
WithLatePenalty(rec) ==
    IF rec.days_late > 0
    THEN [rec EXCEPT !.late_penalty = rec.days_late * LatePenaltyPerDay]
    ELSE rec

\* Lines 116-132: the final amounts.
WithTotals(rec) ==
    LET gross == rec.regular_pay + rec.overtime_pay + rec.bonus
        deductions == rec.tax_deduction + rec.insurance_deduction
                        + rec.other_deductions + rec.late_penalty
                        + rec.absence_deduction
    IN [rec EXCEPT !.gross_salary = gross,
                   !.total_deductions = deductions,
                   !.net_salary = gross - deductions,
                   !.runs = @ + 1]

\* What calculate_employee_payroll leaves in the record `rec` (the stored
\* one, or a new one) of employee e and period p.
Calculated(rec, e, p, order) ==
    LET period == payroll_periods[p]
        stats == _calculate_work_statistics(attendance,
                    AttendanceInPeriod(attendance, e, period),
                    period.start_date, period.end_date)
    IN WithTotals(WithLatePenalty(
         _apply_salary_rules(salary_rules, order,
            WithBasicPay(rec, stats, employees[e]), employees[e])))

\* The stored records of (e, p) (lines 58-63).
PayrollRecordsOfMutantNone(recs, e, p) == {}
PayrollRecordsOf(recs, e, p) ==
    {i \in DOMAIN recs : recs[i].employee_id = e /\ recs[i].period_id = p}

PayrollResult(e, p, id, created) ==
    [op |-> "calculate", employee_id |-> e, period_id |-> p,
     outcome |-> "ok", record_id |-> id, created |-> created]

\* The number of calculations made so far.
TotalRuns(recs) == SumOver(DOMAIN recs, [i \in DOMAIN recs |-> recs[i].runs])

\* PayrollService.calculate_employee_payroll(employee_id, period_id) for an
\* employee and a period that exist.
calculate_employee_payroll(e, p) ==
    \E order \in RuleOrders(salary_rules) :
        \/ \* no record of (e, p) yet: one is added
           /\ PayrollRecordsOf(payroll_records, e, p) = {}
           /\ payroll_records' = Append(payroll_records,
                    Calculated(NewPayrollRecord(e, p), e, p, order))
           /\ last' = PayrollResult(e, p, Len(payroll_records) + 1, TRUE)
        \/ \* the stored record is updated in place
           \E id \in PayrollRecordsOf(payroll_records, e, p) :
             /\ payroll_records' = [payroll_records EXCEPT
                    ![id] = Calculated(@, e, p, order)]
             /\ last' = PayrollResult(e, p, id, FALSE)

\* create_salary_rule of routes/payroll.py: SalaryRule(**rule_data.dict()),
\* is_active taking its column default.
create_salary_rule(rule) ==
    /\ Len(salary_rules) < MaxRules
    /\ salary_rules' = Append(salary_rules, rule)
    /\ last' = [op |-> "create_salary_rule", outcome |-> "ok",
                rule_id |-> Len(salary_rules) + 1]

---------------------------------------------------------------------------
\* The stored state payroll starts from.

\* What an employee does on a day: nothing, or a check-in and a check-out
\* at these hours.
Absent == <<>>
DayPatterns == {Absent, <<10, 18>>, <<8, 18>>}

\* The attendance table of employee e whose day d follows pattern f[d],
\* days from d up.
RECURSIVE AttendanceFrom(_, _, _, _)
AttendanceFrom(shs, e, f, d) ==
    IF d > MaxDay THEN <<>>
    ELSE (IF f[d] = Absent THEN <<>>
          ELSE <<ClosedAttendance(shs, e, At(d, HMS(f[d][1], 0, 0)),
                                  At(d, HMS(f[d][2], 0, 0)))>>)
         \o AttendanceFrom(shs, e, f, d + 1)

AttendanceTables ==
    {AttendanceFrom(DayShiftTable, 1, f, 0) : f \in [Days -> DayPatterns]}

\* Employee 1 earns 1600.00 a month; employee 2 has no salary rate.
PayrollEmployees ==
    [i \in EmployeeIds |->
        IF i = 1 THEN EmployeeRow(160000, "IT", "Engineer", TRUE)
        ELSE EmployeeRow(0, "HR", "Clerk", TRUE)]

\* One period, from the Saturday before day 0 to the last day.
PeriodRow(start, end) ==
    [start_date |-> start, end_date |-> end, status |-> "draft"]
PayrollPeriods == <<PeriodRow(-2, MaxDay)>>

\* The rule bodies posted to create_salary_rule.
RuleChoices ==
    {RuleRow("bonus", 0, 2000, 0, TRUE, "", ""),
     RuleRow("bonus", 0, 0, 10, FALSE, "HR", ""),
     RuleRow("deduction", 0, 2000, 0, TRUE, "", ""),
     RuleRow("tax", 0, 0, 10, TRUE, "", ""),
     RuleRow("overtime", 200, 0, 0, TRUE, "", "")}

InitPayroll ==
    /\ attendance \in AttendanceTables
    /\ shifts = DayShiftTable
    /\ employees = PayrollEmployees
    /\ modifications = <<>>
    /\ salary_rules = <<>>
    /\ payroll_periods = PayrollPeriods
    /\ payroll_records = <<>>
    /\ last = NoResult
    /\ system_locks = <<>>
    /\ pc = IdlePc
    /\ now = At(MaxDay, HMS(19, 0, 0))

CreateSalaryRule ==
    /\ \E rule \in RuleChoices : create_salary_rule(rule)
    /\ UNCHANGED <<attendance, shifts, employees, modifications, payroll_periods,
                   payroll_records, pc, now, system_locks>>

CalculateEmployeePayroll ==
    /\ TotalRuns(payroll_records) < MaxRuns
    /\ \E e \in EmployeeIds, p \in DOMAIN payroll_periods :
            calculate_employee_payroll(e, p)
    /\ UNCHANGED <<attendance, shifts, employees, modifications, salary_rules,
                   payroll_periods, pc, now, system_locks>>

NextPayroll == CreateSalaryRule \/ CalculateEmployeePayroll

SpecPayroll == InitPayroll /\ [][NextPayroll]_vars

---------------------------------------------------------------------------
\* Payroll of a whole period.

\* The employees the query of line 150 returns.
ActiveEmployees(emps) == {e \in DOMAIN emps : emps[e].is_active}

\* The orders in which that query, which has no ORDER BY, may return them.
EmployeeOrders(emps) ==
    {o \in [1..Cardinality(ActiveEmployees(emps)) -> ActiveEmployees(emps)] :
        \A i, j \in DOMAIN o : i # j => o[i] # o[j]}

\* The loop of calculate_period_payroll (lines 152-161) over the employees
\* of `order` from the first on.  For the employees in `failing` the call
\* of calculate_employee_payroll raises before its commit has succeeded and
\* the session is rolled back; for the others it commits, with the rules in
\* the order rule_orders[e].
RECURSIVE PeriodLoopMutantAbort(_, _, _, _, _)
PeriodLoopMutantAbort(recs, p, order, failing, rule_orders) ==
    IF order = <<>> \/ Head(order) \in failing
    THEN [records |-> recs, returned |-> <<>>]
    ELSE LET e == Head(order)
             ids == PayrollRecordsOf(recs, e, p)
             id == IF ids = {} THEN Len(recs) + 1
                   ELSE CHOOSE i \in ids : TRUE
             written ==
                IF ids = {}
                THEN Append(recs, Calculated(NewPayrollRecord(e, p), e, p,
                                             rule_orders[e]))
                ELSE [recs EXCEPT ![id] =
                        Calculated(@, e, p, rule_orders[e])]
             rest == PeriodLoopMutantAbort(written, p, Tail(order), failing,
                                           rule_orders)
         IN [rest EXCEPT !.returned = <<id>> \o @]
RECURSIVE PeriodLoop(_, _, _, _, _)
PeriodLoop(recs, p, order, failing, rule_orders) ==
    IF order = <<>> THEN [records |-> recs, returned |-> <<>>]
    ELSE IF Head(order) \in failing
    THEN PeriodLoop(recs, p, Tail(order), failing, rule_orders)
    ELSE LET e == Head(order)
             ids == PayrollRecordsOf(recs, e, p)
             id == IF ids = {} THEN Len(recs) + 1
                   ELSE CHOOSE i \in ids : TRUE
             written ==
                IF ids = {}
                THEN Append(recs, Calculated(NewPayrollRecord(e, p), e, p,
                                             rule_orders[e]))
                ELSE [recs EXCEPT ![id] =
                        Calculated(@, e, p, rule_orders[e])]
             rest == PeriodLoop(written, p, Tail(order), failing,
                                rule_orders)
         IN [rest EXCEPT !.returned = <<id>> \o @]

\* Lines 165-166: period.status = "completed"
CompletedPeriodMutantDraft(row) == [row EXCEPT !.status = "draft"]
CompletedPeriod(row) == [row EXCEPT !.status = "completed"]

\* PayrollService.calculate_period_payroll(period_id)
calculate_period_payroll(p) ==
    \/ \* the period is not stored: ValueError
       /\ p \notin DOMAIN payroll_periods
       /\ last' = [op |-> "calculate_period", period_id |-> p,
                   outcome |-> "not_found"]
       /\ UNCHANGED <<payroll_records, payroll_periods>>
    \/ /\ p \in DOMAIN payroll_periods
       /\ \E order \in EmployeeOrders(employees),
             failing \in SUBSET ActiveEmployees(employees),
             rule_orders \in [ActiveEmployees(employees)
                                -> RuleOrders(salary_rules)] :
            LET r == PeriodLoop(payroll_records, p, order, failing,
                                rule_orders)
            IN /\ payroll_records' = r.records
               /\ payroll_periods' = [payroll_periods EXCEPT
                        ![p] = CompletedPeriod(@)]
               /\ last' = [op |-> "calculate_period", period_id |-> p,
                           outcome |-> "ok",
                           previous_status |-> payroll_periods[p].status,
                           attempted |-> Range(order),
                           failed |-> failing,
                           returned |-> r.returned]

\* The stored state: nobody came on day 0, or employee 1 worked from 10:00
\* to 18:00; employee 2 is active or not; no salary rule, or one bonus rule
\* for everybody; two draft periods as create_payroll_period leaves them.
PeriodAttendanceTables ==
    {<<>>,
     <<ClosedAttendance(DayShiftTable, 1, At(0, HMS(10, 0, 0)),
                        At(0, HMS(18, 0, 0)))>>}

EmployeeTables ==
    {PayrollEmployees, [PayrollEmployees EXCEPT ![2].is_active = FALSE]}

PeriodRuleTables == {<<>>, <<RuleRow("bonus", 0, 2000, 0, TRUE, "", "")>>}

TwoPeriods == <<PeriodRow(-2, MaxDay), PeriodRow(0, 0)>>

\* The periods as created, or the second one left completed by an earlier
\* calculate_period_payroll in which no record was committed.
PeriodTables == {TwoPeriods, [TwoPeriods EXCEPT ![2].status = "completed"]}

InitPeriod ==
    /\ attendance \in PeriodAttendanceTables
    /\ shifts = DayShiftTable
    /\ employees \in EmployeeTables
    /\ modifications = <<>>
    /\ salary_rules \in PeriodRuleTables
    /\ payroll_periods \in PeriodTables
    /\ payroll_records = <<>>
    /\ last = NoResult
    /\ system_locks = <<>>
    /\ pc = IdlePc
    /\ now = At(MaxDay, HMS(19, 0, 0))

CalculatePeriodPayroll ==
    /\ TotalRuns(payroll_records) + Cardinality(ActiveEmployees(employees))
            <= MaxRuns
    /\ \E p \in 1..(Len(payroll_periods) + 1) : calculate_period_payroll(p)
    /\ UNCHANGED <<attendance, shifts, employees, modifications,
                   salary_rules, pc, now, system_locks>>

NextPeriod == CalculateEmployeePayroll \/ CalculatePeriodPayroll

SpecPeriod == InitPeriod /\ [][NextPeriod]_vars

---------------------------------------------------------------------------
\* Payroll over stored rules of every applicability, and over an attendance
\* with two records of one day.

\* applies_to_all, department_filter, position_filter as posted to
\* create_salary_rule: for everybody; for nobody in particular; by
\* department; by position; by both.
ApplicabilityChoices ==
    {<<TRUE, "", "">>, <<FALSE, "", "">>, <<FALSE, "HR", "">>,
     <<FALSE, "", "Engineer">>, <<FALSE, "IT", "Clerk">>}

\* rule_type, rate_multiplier, fixed_amount.
RuleBodies ==
    {<<"bonus", 0, 2000>>, <<"deduction", 0, 2000>>, <<"tax", 0, 2000>>,
     <<"overtime", 200, 0>>}

FilterRuleTables ==
    {<<>>} \cup
    {<<RuleRow(b[1], b[2], b[3], 0, a[1], a[2], a[3])>> :
        b \in RuleBodies, a \in ApplicabilityChoices}

\* Employee 1 checked in, out, and in and out again on day 0: check_in_employee
\* refuses only while a record of the day is open.
RepeatedDayTable ==
    <<ClosedAttendance(DayShiftTable, 1, At(0, HMS(8, 0, 0)),
                       At(0, HMS(12, 0, 0))),
      ClosedAttendance(DayShiftTable, 1, At(0, HMS(13, 0, 0)),
                       At(0, HMS(17, 0, 0)))>>

InitRules ==
    /\ attendance \in AttendanceTables \cup {RepeatedDayTable}
    /\ shifts = DayShiftTable
    /\ employees = PayrollEmployees
    /\ modifications = <<>>
    /\ salary_rules \in FilterRuleTables
    /\ payroll_periods = PayrollPeriods
    /\ payroll_records = <<>>
    /\ last = NoResult
    /\ system_locks = <<>>
    /\ pc = IdlePc
    /\ now = At(MaxDay, HMS(19, 0, 0))

NextRules == CalculateEmployeePayroll

SpecRules == InitRules /\ [][NextRules]_vars

---------------------------------------------------------------------------
\* Face matcher (backend/app/services/simple_face_service.py).
\*
\* A feature vector is a sequence of numbers.  Pearson's correlation of two
\* vectors is kept exactly, as its sign and its square in lowest terms:
\* the record [sgn, sq_num, sq_den] stands for sgn * sqrt(sq_num / sq_den).
\* The record with sq_den = 0 is the quotient 0/0 that numpy returns as NaN.

MaxKnown == 2

\* self.tolerance = 0.6, in hundredths.
Tolerance == 60

RECURSIVE DotUpTo(_, _, _)
DotUpTo(x, y, k) ==
    IF k = 0 THEN 0 ELSE x[k] * y[k] + DotUpTo(x, y, k - 1)

Dot(x, y) == DotUpTo(x, y, Len(x))

Ones(x) == [i \in 1..Len(x) |-> 1]

RECURSIVE Gcd(_, _)
Gcd(a, b) == IF b = 0 THEN a ELSE Gcd(b, a % b)

Sign(a) == IF a > 0 THEN 1 ELSE IF a < 0 THEN -1 ELSE 0

\* The number num / sqrt(den), den > 0.
Coefficient(num, den) ==
    LET g == Gcd(num * num, den)
    IN  [sgn |-> Sign(num), sq_num |-> (num * num) \div g,
         sq_den |-> den \div g]

NaN == [sgn |-> 0, sq_num |-> 0, sq_den |-> 0]

isnan(c) == c.sq_den = 0

\* a >= b for two correlations that are not NaN.
CoefficientAtLeast(a, b) ==
    IF a.sgn # b.sgn THEN a.sgn > b.sgn
    ELSE IF a.sgn = 0 THEN TRUE
    ELSE IF a.sgn = 1 THEN a.sq_num * b.sq_den >= b.sq_num * a.sq_den
    ELSE a.sq_num * b.sq_den <= b.sq_num * a.sq_den

\* np.corrcoef(known_np, unknown_np) stacks the two vectors as the rows of
\* one matrix and raises ValueError when their lengths differ.
CorrcoefRaises(x, y) == Len(x) # Len(y)

\* np.corrcoef(x, y)[0, 1] = cov(x, y) / sqrt(var(x) * var(y)); a vector
\* without variance makes it 0/0.
corrcoef(x, y) ==
    LET n   == Len(x)
        cxy == n * Dot(x, y) - Dot(x, Ones(x)) * Dot(y, Ones(y))
        cxx == n * Dot(x, x) - Dot(x, Ones(x)) * Dot(x, Ones(x))
        cyy == n * Dot(y, y) - Dot(y, Ones(y)) * Dot(y, Ones(y))
    IN  IF cxx * cyy = 0 THEN NaN ELSE Coefficient(cxy, cxx * cyy)

\* similarity = (correlation + 1) / 2 and distance = 1 - similarity: the
\* record [r |-> c] is the distance (1 - c) / 2.
Distance(c) == [r |-> c]

\* d1 < d2.
DistanceLess(d1, d2) == ~CoefficientAtLeast(d2.r, d1.r)

\* similarity >= self.tolerance, that is correlation >= 2 * tolerance - 1.
SimilarityWithinTolerance(c) ==
    CoefficientAtLeast(c, Coefficient(2 * Tolerance - 100, 100 * 100))

\* compare_faces (lines 113-138).  Every exception is caught and answered
\* by (False, 1.0).
compare_faces(known_features, unknown_features) ==
    IF CorrcoefRaises(known_features, unknown_features)
    THEN [is_match |-> FALSE, distance |-> Distance(Coefficient(-1, 1))]
    ELSE LET c == corrcoef(known_features, unknown_features)
             correlation == IF isnan(c) THEN Coefficient(0, 1) ELSE c
         IN  [is_match |-> SimilarityWithinTolerance(correlation),
              distance |-> Distance(correlation)]

\* The value None of find_best_match: best_match_id is None and
\* best_distance is float('inf'), smaller than which every distance is.
NoneMatch ==
    [found |-> FALSE, employee_id |-> 0,
     distance |-> Distance(Coefficient(-1, 1))]

BestOf(entry, unknown_features, best, better) ==
    LET cmp == compare_faces(entry[2], unknown_features)
    IN  IF cmp.is_match /\ (~best.found \/ better)
        THEN [found |-> TRUE, employee_id |-> entry[1],
              distance |-> cmp.distance]
        ELSE best

\* The loop with "distance <= best_distance": the last of several equally
\* near vectors would win.
RECURSIVE BestMatchLoopMutantLastWins(_, _, _, _)
BestMatchLoopMutantLastWins(unknown_features, known_faces, i, best) ==
    IF i > Len(known_faces) THEN best
    ELSE LET d == compare_faces(known_faces[i][2], unknown_features).distance
         IN  BestMatchLoopMutantLastWins(unknown_features, known_faces, i + 1,
                BestOf(known_faces[i], unknown_features, best,
                       ~DistanceLess(best.distance, d)))

\* for employee_id, known_features in known_faces (lines 151-161).
RECURSIVE BestMatchLoop(_, _, _, _)
BestMatchLoop(unknown_features, known_faces, i, best) ==
    IF i > Len(known_faces) THEN best
    ELSE LET d == compare_faces(known_faces[i][2], unknown_features).distance
         IN  BestMatchLoop(unknown_features, known_faces, i + 1,
                BestOf(known_faces[i], unknown_features, best,
                       DistanceLess(d, best.distance)))

\* find_best_match (lines 140-171).
find_best_match(unknown_features, known_faces) ==
    IF known_faces = <<>> THEN NoneMatch
    ELSE BestMatchLoop(unknown_features, known_faces, 1, NoneMatch)

\* Feature vectors of three components, among them vectors without
\* variance, vectors that are multiples or shifts of one another, and two
\* vectors of another length.
Vectors ==
    {<<0, a, b>> : a \in 0..2, b \in 0..2}
        \cup {<<1, 1, 1>>, <<1, 1, 2>>, <<2, 1, 0>>, <<0, 1>>, <<1, 1>>}

FaceIds == 1..MaxKnown

IdOrders(k) ==
    {ids \in [1..k -> FaceIds] : \A i, j \in 1..k : ids[i] = ids[j] => i = j}

\* known_features of the recognition routes: one entry per employee with a
\* stored encoding, in the order of the employee query.
KnownLists ==
    UNION {{[i \in 1..k |-> <<ids[i], vs[i]>>] :
                ids \in IdOrders(k), vs \in [1..k -> Vectors]} :
           k \in 0..MaxKnown}

\* A recognition request as it reaches the matcher: the features of the
\* submitted image and the stored encodings.
MatchRequest(u, known) ==
    [op |-> "match_request", unknown |-> u, known_faces |-> known,
     outcome |-> "pending", result |-> NoneMatch]

InitFace ==
    /\ attendance = <<>>
    /\ shifts = DayShiftTable
    /\ employees = DefaultEmployees
    /\ modifications = <<>>
    /\ NoPayroll
    /\ last \in {MatchRequest(u, known) : u \in Vectors, known \in KnownLists}
    /\ system_locks = <<>>
    /\ pc = IdlePc
    /\ now = SetMin(Instants)

FindBestMatch ==
    /\ last.op = "match_request"
    /\ last' = [last EXCEPT !.op = "find_best_match",
                            !.outcome = "returned",
                            !.result = find_best_match(last.unknown,
                                                       last.known_faces)]
    /\ UNCHANGED <<attendance, shifts, employees, modifications,
                   salary_rules, payroll_periods, payroll_records, pc, now,
                   system_locks>>

NextFace == FindBestMatch

SpecFace == InitFace /\ [][NextFace]_vars

---------------------------------------------------------------------------
\* The expected shift duration over the shift times of the day.

\* Start and end of a shift: every start of the day with an end that is the
\* start itself, one minute, eight hours, or a day less a minute later, or
\* 00:00 or 06:00; and every end of the day for the starts 00:00 and 22:00.
ShiftSpans ==
    {<<s, (s + k) % HM(24, 0)>> :
        s \in MinutesOfDay, k \in {0, 1, HM(8, 0), HM(23, 59)}}
    \cup {<<s, e>> : s \in MinutesOfDay, e \in {HM(0, 0), HM(6, 0)}}
    \cup {<<s, e>> : s \in {HM(0, 0), HM(22, 0)}, e \in MinutesOfDay}

\* Employee 1 on one shift of every day.
SpanShiftTable(span) ==
    <<ShiftRow(1, "Probe", span[1], span[2], TRUE, AllWeek, TRUE)>>

\* Employee 1 checked in at the first second of day 0; it is the last second
\* of that day.
InitDuration ==
    /\ \E span \in ShiftSpans :
         /\ shifts = SpanShiftTable(span)
         /\ attendance =
                <<OpenAttendance(SpanShiftTable(span), 1, At(0, 0))>>
    /\ employees = DefaultEmployees
    /\ modifications = <<>>
    /\ NoPayroll
    /\ last = NoResult
    /\ system_locks = <<>>
    /\ pc = IdlePc
    /\ now = At(0, DayLength - 1)

NextDuration == CheckOut

SpecDuration == InitDuration /\ [][NextDuration]_vars

---------------------------------------------------------------------------
\* Shift management (backend/app/services/shift_service.py).  A template is
\* a shift row whose employee_id is NULL, written 0.

MaxShifts == 5

\* ShiftService.get_shift_by_id: the row of that id, whatever its owner and
\* whether active or not.
get_shift_by_id(shs, id) == IF id \in DOMAIN shs THEN {id} ELSE {}

\* The shift_data of assign_shift_to_employee (lines 265-273).
AssignedShift(template, e) ==
    [template EXCEPT !.employee_id = e, !.is_active = TRUE]

\* ShiftService.assign_shift_to_employee(employee_id, template_id)
assign_shift_to_employee(e, template_id) ==
    IF get_shift_by_id(shifts, template_id) = {}
    THEN /\ shifts' = shifts
         /\ last' = [op |-> "assign_shift", employee_id |-> e,
                     template_id |-> template_id, outcome |-> "none",
                     shift_id |-> NoShift]
    ELSE /\ shifts' = Append(shifts, AssignedShift(shifts[template_id], e))
         /\ last' = [op |-> "assign_shift", employee_id |-> e,
                     template_id |-> template_id, outcome |-> "ok",
                     shift_id |-> Len(shifts) + 1]

\* ShiftService.delete_shift(shift_id): the row is marked inactive.
delete_shift(id) ==
    IF get_shift_by_id(shifts, id) = {}
    THEN /\ shifts' = shifts
         /\ last' = [op |-> "delete_shift", shift_id |-> id,
                     outcome |-> "none"]
    ELSE /\ shifts' = [shifts EXCEPT ![id].is_active = FALSE]
         /\ last' = [op |-> "delete_shift", shift_id |-> id,
                     outcome |-> "ok"]

\* ShiftService.get_employee_current_shift(employee_id, current_day): the
\* first shift of the query whose day list holds the day, or None.
get_employee_current_shift(e, day) ==
    \E s \in ResolvedShifts(shifts, e, day) :
        last' = [op |-> "get_current_shift", employee_id |-> e,
                 day |-> day, shift_id |-> s]

\* Two templates as create_predefined_shifts leaves them, a shift of
\* employee 1 with a capitalised day name, and a shift of employee 2; in the
\* second table the first shift of employee 1 has a day list that is not
\* JSON.
WeekdaysOnly == <<"monday", "tuesday", "wednesday", "thursday", "friday">>

TemplateTable ==
    <<ShiftRow(0, "Morning Shift", HM(9, 0), HM(17, 0), TRUE, WeekdaysOnly,
               TRUE),
      ShiftRow(0, "Night Shift", HM(22, 0), HM(6, 0), TRUE, AllWeek, TRUE),
      ShiftRow(1, "Early", HM(7, 0), HM(15, 0), TRUE, <<"Monday">>, TRUE),
      ShiftRow(2, "Late", HM(14, 0), HM(22, 0), TRUE, <<"tuesday">>, TRUE)>>

StoredShiftTables ==
    {TemplateTable,
     [TemplateTable EXCEPT ![3].days_of_week = [parses |-> FALSE,
                                                list |-> <<>>]]}

\* The day names asked for.
DayQueries == {"Monday", "tuesday", "sunday"}

InitShift ==
    /\ attendance = <<>>
    /\ shifts \in StoredShiftTables
    /\ employees = DefaultEmployees
    /\ modifications = <<>>
    /\ NoPayroll
    /\ last = NoResult
    /\ system_locks = <<>>
    /\ pc = IdlePc
    /\ now = At(0, 0)

ShiftFrame ==
    UNCHANGED <<attendance, employees, modifications, salary_rules,
                payroll_periods, payroll_records, pc, now, system_locks>>

AssignShiftToEmployee ==
    /\ Len(shifts) < MaxShifts
    /\ \E e \in EmployeeIds, t \in 1..(Len(shifts) + 1) :
            assign_shift_to_employee(e, t)
    /\ ShiftFrame

DeleteShift ==
    /\ \E id \in 1..(Len(shifts) + 1) : delete_shift(id)
    /\ ShiftFrame

GetEmployeeCurrentShift ==
    /\ \E e \in EmployeeIds, day \in DayQueries :
            get_employee_current_shift(e, day)
    /\ UNCHANGED shifts
    /\ ShiftFrame

NextShift == AssignShiftToEmployee \/ DeleteShift \/ GetEmployeeCurrentShift

SpecShift == InitShift /\ [][NextShift]_vars

---------------------------------------------------------------------------
\* Employee management (routes/employees.py, services/employee_service.py).
\* Here the employees table is the sequence of its rows, each with the
\* employee_id string that the column declares unique.

MaxEmployees == 2

EmployeeCodes == {"EMP001", "EMP002", "EMP003"}

\* Employee(...) of create_employee (lines 23-34).
NewEmployee(body) ==
    [employee_id |-> body.employee_id, department |-> body.department,
     position |-> "Engineer", salary_rate |-> 0, is_active |-> TRUE]

\* EmployeeService.get_employee_by_employee_id: the rows with that
\* employee_id, active or not.  The mutant looks at the active rows only.
GetByEmployeeIdMutantActive(emps, code) ==
    {i \in DOMAIN emps : emps[i].employee_id = code /\ emps[i].is_active}
get_employee_by_employee_id(emps, code) ==
    {i \in DOMAIN emps : emps[i].employee_id = code}

\* The unique index on employees.employee_id refuses the insert.
UniqueIndexRefuses(emps, code) ==
    \E i \in DOMAIN emps : emps[i].employee_id = code

\* POST /employees/: the route's check, then EmployeeService.create_employee.
create_employee(body) ==
    IF get_employee_by_employee_id(employees, body.employee_id) # {}
    THEN /\ employees' = employees
         /\ last' = [op |-> "create_employee", outcome |-> "rejected",
                     status_code |-> 400, employee_id |-> body.employee_id]
    ELSE IF UniqueIndexRefuses(employees, body.employee_id)
    THEN /\ employees' = employees
         /\ last' = [op |-> "create_employee", outcome |-> "error",
                     status_code |-> 500, employee_id |-> body.employee_id]
    ELSE /\ employees' = Append(employees, NewEmployee(body))
         /\ last' = [op |-> "create_employee", outcome |-> "ok",
                     status_code |-> 200, employee_id |-> body.employee_id]

\* PUT /employees/{id}: the fields of EmployeeUpdate that are set are
\* written; employee_id is not among them.
update_employee(id, update) ==
    IF id \notin DOMAIN employees
    THEN /\ employees' = employees
         /\ last' = [op |-> "update_employee", outcome |-> "not_found",
                     status_code |-> 404, employee_id |-> ""]
    ELSE /\ employees' = [employees EXCEPT
                ![id].department = update.department,
                ![id].is_active = update.is_active]
         /\ last' = [op |-> "update_employee", outcome |-> "ok",
                     status_code |-> 200,
                     employee_id |-> employees[id].employee_id]

\* DELETE /employees/{id}: is_active = False.
delete_employee(id) ==
    IF id \notin DOMAIN employees
    THEN /\ employees' = employees
         /\ last' = [op |-> "delete_employee", outcome |-> "not_found",
                     status_code |-> 404, employee_id |-> ""]
    ELSE /\ employees' = [employees EXCEPT ![id].is_active = FALSE]
         /\ last' = [op |-> "delete_employee", outcome |-> "ok",
                     status_code |-> 200,
                     employee_id |-> employees[id].employee_id]

CreateBodies ==
    {[employee_id |-> c, department |-> d] :
        c \in EmployeeCodes, d \in {"IT", "HR"}}

UpdateBodies ==
    {[department |-> d, is_active |-> a] :
        d \in {"IT", "HR"}, a \in BOOLEAN}

InitEmployee ==
    /\ attendance = <<>>
    /\ shifts = <<>>
    /\ employees = <<>>
    /\ modifications = <<>>
    /\ NoPayroll
    /\ last = NoResult
    /\ system_locks = <<>>
    /\ pc = IdlePc
    /\ now = At(0, 0)

EmployeeFrame ==
    UNCHANGED <<attendance, shifts, modifications, salary_rules,
                payroll_periods, payroll_records, pc, now, system_locks>>

CreateEmployee ==
    /\ Len(employees) < MaxEmployees
    /\ \E body \in CreateBodies : create_employee(body)
    /\ EmployeeFrame

UpdateEmployee ==
    /\ \E id \in 1..(Len(employees) + 1), update \in UpdateBodies :
            update_employee(id, update)
    /\ EmployeeFrame

DeleteEmployee ==
    /\ \E id \in 1..(Len(employees) + 1) : delete_employee(id)
    /\ EmployeeFrame

NextEmployee == CreateEmployee \/ UpdateEmployee \/ DeleteEmployee

SpecEmployee == InitEmployee /\ [][NextEmployee]_vars

---------------------------------------------------------------------------
\* The license lock (models/system_lock.py, services/system_lock_service.py,
\* middleware/system_lock_middleware.py, routes/system_lock.py).

MaxAttempts == 2

\* timedelta(days=30) of create_initial_lock and extend_license
LicenseDays == 30

\* A system_locks row.
LockRow(locked, locked_at, expires_at, reason, attempts) ==
    [is_locked |-> locked, locked_at |-> locked_at, expires_at |-> expires_at,
     lock_reason |-> reason, unlock_attempts |-> attempts]

\* SystemLock.get_current_lock: the row with the highest id, 0 for None.
get_current_lock(locks) == Len(locks)

\* SystemLock.is_system_locked at utcnow() = t
is_system_locked(locks, t) ==
    IF get_current_lock(locks) = 0 THEN FALSE
    ELSE \/ locks[get_current_lock(locks)].is_locked
         \/ t >= locks[get_current_lock(locks)].expires_at

\* SystemLock.create_initial_lock at utcnow() = t
create_initial_lock(locks, t) ==
    Append(locks, LockRow(FALSE, NoTime, t + LicenseDays * DayLength,
                          "Initial 30-day license period", 0))

\* SystemLockService.initialize_system
initialize_system(locks, t) ==
    IF get_current_lock(locks) = 0 THEN create_initial_lock(locks, t)
    ELSE locks

\* SystemLock.lock_system on the current lock
lock_system(locks, t, reason) ==
    [locks EXCEPT ![get_current_lock(locks)] =
        [@ EXCEPT !.is_locked = TRUE, !.locked_at = t, !.lock_reason = reason]]

\* SystemLockService.check_system_status at utcnow() = t: the table it
\* leaves and the is_locked it reports.
check_system_status(locks, t) ==
    LET stored == initialize_system(locks, t)
        current_lock == stored[get_current_lock(stored)]
    IN IF ~current_lock.is_locked /\ t >= current_lock.expires_at
       THEN [locks |-> lock_system(stored, t,
                            "30-day period expired - auto-locked"),
             is_locked |-> TRUE]
       ELSE [locks |-> stored, is_locked |-> is_system_locked(stored, t)]

\* hashlib.sha256(password.encode()).hexdigest(): different passwords have
\* different digests.
_hash_password(password) == <<"sha256", password>>

\* self.unlock_password_hash of SystemLockService.__init__
unlock_password_hash == _hash_password("")

\* SystemLockService.unlock_system(password) at utcnow() = t: the table it
\* leaves and its success.
unlock_system(locks, t, password) ==
    IF get_current_lock(locks) = 0
    THEN [locks |-> locks, success |-> FALSE]
    ELSE IF _hash_password(password) # unlock_password_hash
    THEN [locks |-> [locks EXCEPT
                ![get_current_lock(locks)].unlock_attempts = @ + 1],
          success |-> FALSE]
    ELSE [locks |-> [locks EXCEPT ![get_current_lock(locks)] =
                [@ EXCEPT !.expires_at = t + LicenseDays * DayLength,
                          !.is_locked = FALSE,
                          !.unlock_attempts = 0]],
          success |-> TRUE]

\* SystemLockService.force_lock_system(reason) at utcnow() = t
force_lock_system(locks, t, reason) ==
    lock_system(initialize_system(locks, t), t, reason)

\* A URL path is the sequence of its pieces, "/" first; the pieces that
\* follow are chosen so that none is the beginning of another, which makes
\* one path a prefix of another as sequences exactly when it is one as
\* strings.
Path(rest) == <<"/">> \o rest

\* str.startswith
startswith(path, prefix) ==
    /\ Len(prefix) <= Len(path)
    /\ SubSeq(path, 1, Len(prefix)) = prefix

\* skip_paths of _should_skip_lock_check (lines 53-62)
skip_paths ==
    <<Path(<<"api/v1/system-lock/status">>),
      Path(<<"api/v1/system-lock/unlock">>),
      Path(<<"api/v1/system-lock/license-info">>),
      Path(<<"health">>),
      Path(<<>>),
      Path(<<"docs">>),
      Path(<<"openapi.json">>),
      Path(<<"favicon.ico">>)>>

\* SystemLockMiddleware._should_skip_lock_check
_should_skip_lock_check(path) ==
    \E i \in DOMAIN skip_paths : startswith(path, skip_paths[i])

\* What the router of routes/system_lock.py does with a request that
\* reaches it at utcnow() = t: the table it leaves.
LockRoutes(locks, t, path, password) ==
    IF path = Path(<<"api/v1/system-lock/status">>)
    THEN check_system_status(locks, t).locks
    ELSE IF path = Path(<<"api/v1/system-lock/unlock">>)
    THEN unlock_system(locks, t, password).locks
    ELSE IF path = Path(<<"api/v1/system-lock/license-info">>)
    THEN initialize_system(locks, t)
    ELSE IF path = Path(<<"api/v1/system-lock/force-lock">>)
    THEN force_lock_system(locks, t, "Manual lock")
    ELSE locks

\* The request is passed on: await self.app(scope, receive, send)
Forwarded(locks, path, password) ==
    /\ system_locks' = LockRoutes(locks, now, path, password)
    /\ last' = [op |-> "http", path |-> path, forwarded |-> TRUE,
                status_code |-> 200]

\* SystemLockMiddleware.__call__ for an http request on `path`
SystemLockMiddleware(path, password) ==
    IF _should_skip_lock_check(path)
    THEN Forwarded(system_locks, path, password)
    ELSE IF check_system_status(system_locks, now).is_locked
    THEN /\ system_locks' = check_system_status(system_locks, now).locks
         /\ last' = [op |-> "http", path |-> path, forwarded |-> FALSE,
                     status_code |-> 423]
    ELSE Forwarded(check_system_status(system_locks, now).locks, path,
                   password)

\* The paths requested: the endpoints of the lock router, other endpoints
\* of the application, and a path that only begins like /health.
RequestPaths ==
    {Path(<<"api/v1/system-lock/status">>),
     Path(<<"api/v1/system-lock/unlock">>),
     Path(<<"api/v1/system-lock/license-info">>),
     Path(<<"api/v1/system-lock/force-lock">>),
     Path(<<"api/v1/attendance/check-in">>),
     Path(<<"api/v1/employees/">>),
     Path(<<"health">>),
     Path(<<"health", "z">>),
     Path(<<>>)}

Passwords == {"", "letmein"}

\* The instants at which requests arrive: the first days and the days around
\* the end of the first license period.
LockInstants ==
    {At(d, HMS(9, 0, 0)) : d \in 0..MaxDay}
        \cup {At(LicenseDays + d, HMS(9, 0, 0)) : d \in 0..MaxDay}

InitLock ==
    /\ attendance = <<>>
    /\ shifts = DayShiftTable
    /\ employees = DefaultEmployees
    /\ modifications = <<>>
    /\ NoPayroll
    /\ last = NoResult
    /\ system_locks = <<>>
    /\ pc = IdlePc
    /\ now = SetMin(LockInstants)

HttpRequest ==
    /\ \E path \in RequestPaths, password \in Passwords :
         /\ IF get_current_lock(system_locks) = 0 \/ password = ""
            THEN TRUE
            ELSE system_locks[get_current_lock(system_locks)].unlock_attempts
                    < MaxAttempts
         /\ SystemLockMiddleware(path, password)
    /\ UNCHANGED <<attendance, shifts, employees, modifications, salary_rules,
                   payroll_periods, payroll_records, pc, now>>

TickLock == TickOver(LockInstants)

NextLock == HttpRequest \/ TickLock

SpecLock == InitLock /\ [][NextLock]_vars

---------------------------------------------------------------------------
\* Properties of the attendance state machine.

Min(a, b) == IF a <= b THEN a ELSE b
Max(a, b) == IF a >= b THEN a ELSE b

\* The rows of employee e dated d.
RowsOf(e, d) ==
    {i \in DOMAIN attendance :
        attendance[i].employee_id = e /\ attendance[i].date = d}

\* An open record: check_in set, check_out null.
HasOpenRecord(e, d) ==
    \E i \in RowsOf(e, d) :
        attendance[i].check_in # NoTime /\ attendance[i].check_out = NoTime

\* The requests that were made for employee e on date d.
RequestsFor(e, d) ==
    {p \in Procs : /\ pc[p].at # "idle"
                   /\ pc[p].employee_id = e
                   /\ DateOf(pc[p].time) = d}

\* C1: when check-in requests for one employee and date run concurrently
\* (queries and inserts interleaved in any order, from a date with no open
\* record), at most one record of that employee and date is open, and once
\* all of them have returned exactly one of them has succeeded.
C1_ConcurrentCheckInExactlyOne ==
    \A e \in EmployeeIds, d \in Days :
        /\ Cardinality({i \in RowsOf(e, d) :
                            attendance[i].check_out = NoTime}) <= 1
        /\ (/\ RequestsFor(e, d) # {}
            /\ \A p \in RequestsFor(e, d) : pc[p].at = "done"
            /\ \A p \in RequestsFor(e, d) : pc[p].outcome # "raised")
           => Cardinality({p \in RequestsFor(e, d) :
                               pc[p].outcome = "ok"}) = 1

\* C2: after any sequential series of check-ins and check-outs there is at
\* most one attendance record per (employee, calendar date).
C2_OneRecordPerEmployeeDate ==
    \A e \in EmployeeIds, d \in Days : Cardinality(RowsOf(e, d)) <= 1

\* The status the lateness rule of the specification gives a check-in at t:
\* late exactly when the time of day is later than shift start + 15 minutes,
\* present without a shift.
ExpectedStatus(s, t) ==
    IF s # NoShift /\ TimeOf(t) > HMS(0, shifts[s].start_time, 0) + HMS(0, 15, 0)
    THEN "late"
    ELSE "present"

\* C5: a check-in that finds no open record succeeds, whatever the minute
\* the resolved shift starts at, and its status is late exactly when it is
\* later than shift start + 15 minutes (present without a shift).
C5_LateAfterFifteenMinutes ==
    (last.op = "check_in" /\ last.outcome # "rejected") =>
        /\ last.outcome = "ok"
        /\ last.attendance_id \in DOMAIN attendance
        /\ last.status = attendance[last.attendance_id].status
        /\ last.status =
             ExpectedStatus(attendance[last.attendance_id].shift_id, last.time)

\* C6: a check-in of an employee who has an open record on the check-in date
\* returns success False, creates no record and changes none.
C6_CheckInWithOpenRecordRejected ==
    [][\A e \in EmployeeIds :
          (HasOpenRecord(e, DateOf(now)) /\ check_in_employee(e, now))
            => (last'.outcome = "rejected" /\ attendance' = attendance)]_vars

C6_Witness ==
    /\ last.op = "check_in"
    /\ last.outcome = "rejected"
    /\ HasOpenRecord(last.employee_id, DateOf(last.time))
    /\ Len(attendance) < MaxRecords

\* C7: a check-out of an employee who has no open record dated with the
\* check-out date returns success False and changes no record, so a second
\* check-out never alters what the first wrote.
C7_CheckOutWithoutOpenRecordRejected ==
    [][\A e \in EmployeeIds :
          (~HasOpenRecord(e, DateOf(now)) /\ check_out_employee(e, now))
            => (last'.outcome = "rejected" /\ attendance' = attendance)]_vars

\* A second check-out, later than the first, was rejected.
C7_Witness ==
    /\ last.op = "check_out"
    /\ last.outcome = "rejected"
    /\ \E i \in RowsOf(last.employee_id, DateOf(last.time)) :
         /\ attendance[i].check_out # NoTime
         /\ attendance[i].check_out < last.time

\* C10: a successful check-out writes total = check_out - check_in; with a
\* shift regular = min(total, duration) and overtime = max(0, total -
\* duration), without one overtime = 0 and regular = total; in both cases
\* regular + overtime = total.
C10_HoursSplit ==
    (last.op = "check_out" /\ last.outcome = "ok") =>
        LET row == attendance[last.attendance_id]
            total == row.check_out - row.check_in
            duration == ShiftDuration(shifts[row.shift_id].start_time,
                                      shifts[row.shift_id].end_time)
        IN /\ row.check_out = last.time
           /\ row.total_hours = total
           /\ last.total_hours = total
           /\ row.overtime_hours = last.overtime_hours
           /\ IF row.shift_id # NoShift
              THEN /\ last.regular_hours = Min(total, duration)
                   /\ last.overtime_hours = Max(0, total - duration)
              ELSE /\ last.regular_hours = total
                   /\ last.overtime_hours = 0
           /\ last.regular_hours + last.overtime_hours = total

\* An eight-hour shift and ten hours worked: eight regular, two overtime.
C10_Witness ==
    /\ last.op = "check_out"
    /\ last.outcome = "ok"
    /\ attendance[last.attendance_id].shift_id # NoShift
    /\ last.total_hours = HMS(10, 0, 0)
    /\ last.regular_hours = HMS(8, 0, 0)
    /\ last.overtime_hours = HMS(2, 0, 0)


---------------------------------------------------------------------------
\* Properties of attendance modification.

\* C11: a modify_attendance call that returns True appends exactly one
\* modification row, holding the value the field had before the change
\* (null if unset), the supplied new value and the supplied reason; a call
\* that returns False appends nothing and leaves the attendance table as it
\* was; a bulk call appends one row per successful request; and no step of
\* any operation changes or removes a stored modification row.
C11_ModificationAudited ==
    [][/\ Len(modifications') >= Len(modifications)
       /\ SubSeq(modifications', 1, Len(modifications)) = modifications
       /\ \A req \in ModificationRequests(attendance) :
            modify_attendance(req, AdminUser) =>
                IF last'.outcome = "ok"
                THEN /\ Len(modifications') = Len(modifications) + 1
                     /\ modifications'[Len(modifications')] =
                          [attendance_id |-> req.attendance_id,
                           modified_by |-> AdminUser,
                           field_changed |-> req.field_name,
                           old_value |-> OldValue(
                                attendance[req.attendance_id],
                                req.field_name),
                           new_value |-> req.new_value,
                           reason |-> req.reason]
                ELSE /\ modifications' = modifications
                     /\ attendance' = attendance
       /\ (BulkModifyAttendance /\ last'.op = "bulk_modify_attendance") =>
            Len(modifications') = Len(modifications) + last'.success_count
      ]_vars

\* A second successful modification of a field, whose old value is the new
\* value the first one stored.
C11_Witness ==
    /\ last.op = "modify_attendance"
    /\ last.outcome = "ok"
    /\ Len(modifications) = 2
    /\ modifications[1].field_changed = modifications[2].field_changed
    /\ modifications[1].attendance_id = modifications[2].attendance_id
    /\ modifications[2].old_value = modifications[1].new_value
    /\ modifications[2].old_value # Null
    /\ modifications[2].new_value # modifications[2].old_value

\* C12: the status of every attendance row is one of present, late,
\* absent, half_day.
C12_StatusInDomain ==
    \A i \in DOMAIN attendance :
        attendance[i].status \in {"present", "late", "absent", "half_day"}

---------------------------------------------------------------------------
\* Properties of payroll.

\* The record the last calculation wrote.
LastRecord == payroll_records[last.record_id]

\* No active salary rule applies to employee e.
NoRuleAppliesTo(e) ==
    \A i \in ActiveRules(salary_rules) :
        ~_rule_applies_to_employee(salary_rules[i], employees[e])

\* The active deduction rules that apply to employee e.
DeductionRulesOf(e) ==
    {i \in ActiveRules(salary_rules) :
        /\ salary_rules[i].rule_type = "deduction"
        /\ _rule_applies_to_employee(salary_rules[i], employees[e])}

\* The fields calculate_employee_payroll derives from the rules and totals.
Derived(rec) ==
    <<rec.bonus, rec.tax_deduction, rec.other_deductions, rec.late_penalty,
      rec.absence_deduction, rec.gross_salary, rec.total_deductions,
      rec.net_salary>>

\* C3: a second calculate_employee_payroll for the same (employee, period),
\* made right after the first with attendance, employees and rules
\* unchanged, leaves the net_salary the first one left.
C3_SecondCallSameNet ==
    [][\A e \in EmployeeIds, p \in DOMAIN payroll_periods :
         (/\ last.op = "calculate"
          /\ last.employee_id = e
          /\ last.period_id = p
          /\ calculate_employee_payroll(e, p))
         => payroll_records'[last'.record_id].net_salary
                = LastRecord.net_salary]_vars

\* C4: after a calculation the derived fields of the record are those a
\* calculation on a newly created record gives from the current attendance,
\* employee and rules (in some order of the rules), whatever the record held.
C4_RecalculationAsFresh ==
    last.op = "calculate" =>
        \E order \in RuleOrders(salary_rules) :
            Derived(LastRecord)
                = Derived(Calculated(
                    NewPayrollRecord(last.employee_id, last.period_id),
                    last.employee_id, last.period_id, order))

\* The pay of a record by the default formulas: regular_hours * salary/160
\* and overtime_hours * salary/160 * 1.5.
DefaultPayOf(rec) ==
    LET salary == employees[rec.employee_id].salary_rate
        rate == IF salary = 0 THEN 0 ELSE salary \div 160
    IN [regular |-> (rec.regular_hours * rate) \div 3600,
        overtime |-> (rec.overtime_hours * rate * 3) \div (2 * 3600)]

---------------------------------------------------------------------------
\* Properties of the payroll of a period.

\* The place of a status on the path draft, processing, completed, paid.
StatusRank(st) ==
    CASE st = "draft" -> 1
      [] st = "processing" -> 2
      [] st = "completed" -> 3
      [] st = "paid" -> 4

C14_PeriodBatchIsolatesFailures ==
    [][\A p \in DOMAIN payroll_periods :
         (calculate_period_payroll(p) /\ last'.outcome = "ok") =>
            /\ last'.attempted = ActiveEmployees(employees)
            /\ payroll_periods'[p].status = "completed"
            /\ \A i \in DOMAIN payroll_records :
                    /\ i \in DOMAIN payroll_records'
                    /\ payroll_records'[i].employee_id
                            = payroll_records[i].employee_id
                    /\ payroll_records'[i].period_id
                            = payroll_records[i].period_id
            /\ \A i \in DOMAIN payroll_records' :
                 LET rec == payroll_records'[i]
                     calculated ==
                        /\ rec.period_id = p
                        /\ rec.employee_id \in
                             ActiveEmployees(employees) \ last'.failed
                 IN IF calculated
                    THEN /\ \E k \in DOMAIN last'.returned :
                                last'.returned[k] = i
                         /\ rec.runs =
                              (IF i \in DOMAIN payroll_records
                               THEN payroll_records[i].runs ELSE 0) + 1
                    ELSE /\ i \in DOMAIN payroll_records
                         /\ rec = payroll_records[i]
            /\ \A e \in ActiveEmployees(employees) \ last'.failed :
                 \E i \in DOMAIN payroll_records' :
                    /\ payroll_records'[i].employee_id = e
                    /\ payroll_records'[i].period_id = p
            /\ Len(last'.returned)
                    = Cardinality(ActiveEmployees(employees) \ last'.failed)
      ]_vars

\* A period calculation in which the calculation of one employee failed and
\* that of another was stored and returned.
C14_Witness ==
    /\ last.op = "calculate_period"
    /\ last.outcome = "ok"
    /\ last.failed # {}
    /\ last.attempted \ last.failed # {}
    /\ Len(last.returned) = 1
    /\ payroll_records[last.returned[1]].runs >= 1
    /\ payroll_records[last.returned[1]].employee_id \notin last.failed
    /\ payroll_periods[last.period_id].status = "completed"

\* C15: no two payroll records have the same employee and period.
C15_OneRecordPerEmployeePeriod ==
    \A i, j \in DOMAIN payroll_records :
        (/\ payroll_records[i].employee_id = payroll_records[j].employee_id
         /\ payroll_records[i].period_id = payroll_records[j].period_id)
        => i = j

\* A period calculation has found the record an earlier calculation had
\* stored for the employee and the period, and has calculated it again:
\* it is still the only record.
C15_Witness ==
    /\ last.op = "calculate_period"
    /\ last.outcome = "ok"
    /\ Len(payroll_records) = 1
    /\ payroll_records[1].runs = 2
    /\ last.returned = <<1>>

---------------------------------------------------------------------------
\* Properties of the face matcher.

IsMatchCall == last.op = "find_best_match"

KnownVector(i) == last.known_faces[i][2]

KnownDistance(i) == compare_faces(KnownVector(i), last.unknown).distance

WithinTolerance ==
    {i \in 1..Len(last.known_faces) :
        compare_faces(KnownVector(i), last.unknown).is_match}

\* C16: find_best_match returns the employee of the first, in input order,
\* of the known vectors whose distance is the least among those within
\* tolerance, together with that distance, and returns None when no known
\* vector is within tolerance or the list is empty; the result is this
\* function of the two inputs.
C16_BestMatchIsFirstMinimum ==
    IsMatchCall =>
        IF WithinTolerance = {} THEN last.result = NoneMatch
        ELSE \E i \in WithinTolerance :
               /\ \A j \in WithinTolerance :
                     ~DistanceLess(KnownDistance(j), KnownDistance(i))
               /\ \A j \in WithinTolerance :
                     j < i => DistanceLess(KnownDistance(i), KnownDistance(j))
               /\ last.result = [found |-> TRUE,
                                 employee_id |-> last.known_faces[i][1],
                                 distance |-> KnownDistance(i)]

\* Two different known vectors are equally near and within tolerance; the
\* first one, of the employee with the larger id, is returned.
C16_Witness ==
    /\ IsMatchCall
    /\ Len(last.known_faces) = 2
    /\ WithinTolerance = {1, 2}
    /\ KnownVector(1) # KnownVector(2)
    /\ KnownDistance(1) = KnownDistance(2)
    /\ last.known_faces[1][1] > last.known_faces[2][1]
    /\ last.result.found
    /\ last.result.employee_id = last.known_faces[1][1]

\* C17: a known vector whose length differs from the unknown vector's makes
\* find_best_match fail with an error that reaches the caller.
C17_LengthMismatchRaises ==
    (/\ IsMatchCall
     /\ \E i \in 1..Len(last.known_faces) :
            Len(KnownVector(i)) # Len(last.unknown))
        => last.outcome = "raised"

\* C18: when the known list holds a vector identical to the unknown vector
\* and a different one, the identical vector is at least as near as the
\* different one and find_best_match returns an employee whose vector is
\* the identical one.
C18_IdenticalVectorSelected ==
    LET Same  == {i \in 1..Len(last.known_faces) :
                      KnownVector(i) = last.unknown}
        Other == {i \in 1..Len(last.known_faces) :
                      KnownVector(i) # last.unknown}
    IN  (IsMatchCall /\ Same # {} /\ Other # {}) =>
            /\ \A a \in Same, b \in Other :
                  ~DistanceLess(KnownDistance(b), KnownDistance(a))
            /\ last.result.found
            /\ \E a \in Same :
                  last.result.employee_id = last.known_faces[a][1]

---------------------------------------------------------------------------
\* Properties of rule applicability and of the work statistics.

\* The rule is for everybody, or one of its filters names the employee's
\* department or position.
FilterMatches(rule, emp) ==
    \/ rule.applies_to_all
    \/ rule.department_filter # "" /\ rule.department_filter = emp.department
    \/ rule.position_filter # "" /\ rule.position_filter = emp.position

\* C19: when no stored rule is for everybody or has a filter matching the
\* employee, a rule without any filter included, the calculated record is
\* the one calculated without rules: no bonus, no tax, no other or absence
\* deduction, the default overtime pay and the default late penalty.
C19_UnmatchedRuleHasNoEffect ==
    (/\ last.op = "calculate"
     /\ \A i \in ActiveRules(salary_rules) :
            ~FilterMatches(salary_rules[i], employees[last.employee_id])) =>
        /\ LastRecord.bonus = 0
        /\ LastRecord.tax_deduction = 0
        /\ LastRecord.other_deductions = 0
        /\ LastRecord.absence_deduction = 0
        /\ LastRecord.overtime_pay = DefaultPayOf(LastRecord).overtime
        /\ LastRecord.late_penalty = 5000 * LastRecord.days_late

\* The dates of the period on which employee e checked in.
DaysCheckedIn(e, period) ==
    {attendance[i].date : i \in
        {j \in DOMAIN attendance :
            /\ attendance[j].employee_id = e
            /\ attendance[j].check_in # NoTime
            /\ attendance[j].date \in period.start_date..period.end_date}}

\* C20: calculate_employee_payroll sets days_absent to the number of
\* Monday-to-Friday dates of the period less the number of dates of the
\* period on which the employee checked in, and to 0 when that is negative.
C20_DaysAbsentFromDaysCheckedIn ==
    last.op = "calculate" =>
        LET period == payroll_periods[last.period_id]
            W == Cardinality({d \in period.start_date..period.end_date :
                                Weekday(d) < 5})
            worked == Cardinality(DaysCheckedIn(last.employee_id, period))
        IN  LastRecord.days_absent = Max(0, W - worked)

---------------------------------------------------------------------------
\* Properties of the expected shift duration.

\* end - start, or (24h - start) + end for an end before the start, in
\* seconds, of a shift whose times are minutes of the day.
ExpectedDuration(sh) ==
    IF sh.end_time >= sh.start_time
    THEN 60 * (sh.end_time - sh.start_time)
    ELSE 60 * ((HM(24, 0) - sh.start_time) + sh.end_time)

\* C21: the duration that check-out compares the worked time with is
\* end - start when end >= start and (24h - start) + end otherwise, and lies
\* between 0 and 24 hours: a check-out of a record with a shift reports the
\* worked time split at that duration.
C21_ShiftDurationWraps ==
    (/\ last.op = "check_out"
     /\ last.outcome = "ok"
     /\ attendance[last.attendance_id].shift_id # NoShift) =>
        LET sh == shifts[attendance[last.attendance_id].shift_id]
            d  == ExpectedDuration(sh)
        IN  /\ 0 <= d
            /\ d <= HMS(24, 0, 0)
            /\ last.regular_hours = Min(last.total_hours, d)
            /\ last.overtime_hours = Max(0, last.total_hours - d)
            /\ last.total_hours > d => last.regular_hours = d

\* A check-out after a day less a second on the shift from 22:00 to 06:00:
\* eight hours are regular.
C21_Witness ==
    /\ last.op = "check_out"
    /\ last.outcome = "ok"
    /\ attendance[last.attendance_id].shift_id # NoShift
    /\ shifts[1].start_time = HM(22, 0)
    /\ shifts[1].end_time = HM(6, 0)
    /\ last.total_hours = DayLength - 1
    /\ last.regular_hours = HMS(8, 0, 0)

\* The audit row the step has appended, and the attendance row it is about.
AppendedModification == modifications'[Len(modifications')]

SingleModification ==
    /\ last'.op = "modify_attendance"
    /\ last'.outcome = "ok"
    /\ Len(modifications') = Len(modifications) + 1

\* C22: a successful modify_attendance of check_in or check_out leaves
\* total_hours = check_out - check_in when both are set and 0 when one is
\* unset; one of status or notes leaves total_hours as it was.
C22_TotalHoursRecomputed ==
    [][SingleModification =>
        LET m   == AppendedModification
            old == attendance[m.attendance_id]
            new == attendance'[m.attendance_id]
        IN  IF m.field_changed \in {"check_in", "check_out"}
            THEN new.total_hours =
                    IF new.check_in # NoTime /\ new.check_out # NoTime
                    THEN new.check_out - new.check_in
                    ELSE 0
            ELSE new.total_hours = old.total_hours]_vars

\* The check_in of a closed row was moved to 08:00 and its hours follow.
C22_Witness ==
    /\ last.op = "modify_attendance"
    /\ last.outcome = "ok"
    /\ Len(modifications) = 1
    /\ modifications[1].field_changed = "check_in"
    /\ modifications[1].old_value = StdStamp(0, HMS(9, 20, 0))
    /\ attendance[1].check_in = At(0, HMS(8, 0, 0))
    /\ attendance[1].check_out = At(0, HMS(17, 0, 0))
    /\ attendance[1].total_hours = HMS(9, 0, 0)

\* C23: bulk_modify_attendance applies the items one after the other, each
\* as a modify_attendance call of its own on what the calls before it have
\* left: a failing item neither stops the later ones nor undoes the earlier
\* ones; success_count + failure_count is the number of items, success_count
\* the number of audit rows appended, and errors has one message per failed
\* item, in order.
C23_BulkItemsIndependent ==
    [][\A reqs \in BulkRequestLists(attendance) :
         bulk_modify_attendance(reqs, AdminUser) =>
            LET o1 == ModifyOutcome(attendance, modifications, reqs[1],
                                    AdminUser)
                o2 == ModifyOutcome(o1.attendance, o1.modifications, reqs[2],
                                    AdminUser)
                failed == SelectSeq(<<1, 2>>,
                            LAMBDA i : IF i = 1 THEN ~o1.ok ELSE ~o2.ok)
            IN  /\ attendance' = o2.attendance
                /\ modifications' = o2.modifications
                /\ last'.success_count + last'.failure_count = 2
                /\ last'.success_count
                        = Len(modifications') - Len(modifications)
                /\ last'.failure_count = Len(failed)
                /\ last'.errors
                        = [i \in 1..Len(failed) |->
                                reqs[failed[i]].attendance_id]]_vars

\* A list whose first item failed (a check_out with seconds in the
\* datetime-local format) and whose second item was applied.
C23_Witness ==
    /\ last.op = "bulk_modify_attendance"
    /\ last.success_count = 1
    /\ last.failure_count = 1
    /\ last.errors = <<1>>
    /\ Len(modifications) = 1
    /\ modifications[1].new_value = StdStamp(0, HMS(20, 0, 0))
    /\ attendance[1].check_out = At(0, HMS(20, 0, 0))

---------------------------------------------------------------------------
\* Properties of shift management.

\* Shift s is active, owned by employee e, and its stored day list parses
\* and holds the day, compared in lower case.
ShiftServes(s, e, day) ==
    /\ shifts[s].is_active
    /\ shifts[s].employee_id = e
    /\ shifts[s].employee_id # 0
    /\ shifts[s].days_of_week.parses
    /\ \E i \in DOMAIN shifts[s].days_of_week.list :
            Lower(shifts[s].days_of_week.list[i]) = Lower(day)

IsTemplate(id) == id \in DOMAIN shifts /\ shifts[id].employee_id = 0

\* C25: assign_shift_to_employee with the id of a stored template appends one
\* active row owned by the employee with the template's name, times and
\* days and changes no other row; with any other id it returns None and
\* adds no row; templates have no employee and assignments have one.
C25_AssignFromTemplateOnly ==
    [][\A e \in EmployeeIds, t \in 1..(Len(shifts) + 1) :
         assign_shift_to_employee(e, t) =>
            IF IsTemplate(t)
            THEN /\ last'.outcome = "ok"
                 /\ Len(shifts') = Len(shifts) + 1
                 /\ \A i \in DOMAIN shifts : shifts'[i] = shifts[i]
                 /\ shifts'[Len(shifts')]
                        = [shifts[t] EXCEPT !.employee_id = e,
                                            !.is_active = TRUE]
                 /\ e # 0
            ELSE /\ last'.outcome = "none"
                 /\ shifts' = shifts]_vars

---------------------------------------------------------------------------
\* Properties of employee management.

\* C26: creating an employee whose employee_id a stored employee has, active
\* or soft-deleted, is answered 400 and adds no row, and a create with an
\* unused employee_id adds one; after every step no two employees share an
\* employee_id, and no step removes a row.
C26_EmployeeIdUnique ==
    [][/\ \A i, j \in DOMAIN employees' :
              employees'[i].employee_id = employees'[j].employee_id => i = j
       /\ Len(employees') >= Len(employees)
       /\ \A body \in CreateBodies :
            create_employee(body) =>
                IF \E i \in DOMAIN employees :
                        employees[i].employee_id = body.employee_id
                THEN /\ last'.status_code = 400
                     /\ employees' = employees
                ELSE /\ last'.status_code = 200
                     /\ Len(employees') = Len(employees) + 1]_vars

\* A create with the employee_id of a soft-deleted employee was rejected.
C26_Witness ==
    /\ last.op = "create_employee"
    /\ last.outcome = "rejected"
    /\ \E i \in DOMAIN employees :
            /\ employees[i].employee_id = last.employee_id
            /\ ~employees[i].is_active

---------------------------------------------------------------------------
\* Properties of the hours of an attendance row.

\* C27: in every attendance row overtime_hours is at least 0 and at most
\* total_hours.
C27_OvertimeWithinTotal ==
    \A i \in DOMAIN attendance :
        /\ 0 <= attendance[i].overtime_hours
        /\ attendance[i].overtime_hours <= attendance[i].total_hours

---------------------------------------------------------------------------
\* Properties of records left open over midnight.

\* The open rows of employee e dated before today, and those dated today.
StaleOpenRows(e) ==
    {i \in DOMAIN attendance :
        /\ attendance[i].employee_id = e
        /\ attendance[i].check_out = NoTime
        /\ attendance[i].date < DateOf(now)}

OpenRowsToday(e) ==
    {i \in DOMAIN attendance :
        /\ attendance[i].employee_id = e
        /\ attendance[i].check_out = NoTime
        /\ attendance[i].date = DateOf(now)}

\* C28: a check-out closes only a row dated on the calendar date of the
\* check-out time; a row left open on an earlier date is changed by no
\* later step; a check-out of an employee whose only open rows are of
\* earlier dates is rejected; and a check-in of such an employee is not
\* rejected as already checked in.
C28_CheckOutClosesTodayOnly ==
    [][/\ \A i \in DOMAIN attendance :
            /\ attendance[i].check_out = NoTime
            /\ attendance'[i].check_out # NoTime
            => attendance[i].date = DateOf(attendance'[i].check_out)
       /\ \A e \in EmployeeIds :
            /\ \A i \in StaleOpenRows(e) : attendance'[i] = attendance[i]
            /\ StaleOpenRows(e) # {} /\ OpenRowsToday(e) = {}
               => /\ check_out_employee(e, now)
                        => last'.outcome = "rejected" /\ UNCHANGED attendance
                  /\ check_in_employee(e, now)
                        => last'.outcome # "rejected"]_vars

\* Employee 1 came at 19:00 of day 0 and never checked out; on day 1 the
\* check-out at 09:00 was rejected, the check-in after it made a second row,
\* and the check-out at 19:00 closed that row and left the first one open.
C28_Witness ==
    /\ last.op = "check_out"
    /\ last.outcome = "ok"
    /\ Len(attendance) = 2
    /\ attendance[1].employee_id = attendance[2].employee_id
    /\ attendance[1].date = 0
    /\ attendance[1].check_out = NoTime
    /\ attendance[2].date = 1
    /\ attendance[2].check_out = now
    /\ DateOf(now) = 1

---------------------------------------------------------------------------
\* Properties of the order of the salary rules.

\* The active rules hold at most one rule of each type.
OneRulePerType ==
    \A i, j \in ActiveRules(salary_rules) :
        salary_rules[i].rule_type = salary_rules[j].rule_type => i = j

\* C29: when the active rules hold at most one rule of each type, the
\* gross_salary, total_deductions and net_salary that
\* calculate_employee_payroll writes to a fresh record are those of every
\* order in which the store may return the rules.
C29_RuleOrderIrrelevant ==
    [][\A e \in EmployeeIds, p \in DOMAIN payroll_periods :
        /\ calculate_employee_payroll(e, p)
        /\ PayrollRecordsOf(payroll_records, e, p) = {}
        /\ OneRulePerType
        => \A order \in RuleOrders(salary_rules) :
            LET written == payroll_records'[last'.record_id]
                other == Calculated(NewPayrollRecord(e, p), e, p, order)
            IN /\ written.gross_salary = other.gross_salary
               /\ written.total_deductions = other.total_deductions
               /\ written.net_salary = other.net_salary]_vars

---------------------------------------------------------------------------
\* Properties of the license lock.

\* The system is locked: the current lock has is_locked set or its
\* expires_at has passed.
SystemLocked ==
    /\ Len(system_locks) > 0
    /\ \/ system_locks[Len(system_locks)].is_locked
       \/ now >= system_locks[Len(system_locks)].expires_at

\* The exempt endpoints.
ExemptEndpoints ==
    {Path(<<"api/v1/system-lock/status">>),
     Path(<<"api/v1/system-lock/unlock">>),
     Path(<<"api/v1/system-lock/license-info">>),
     Path(<<"health">>), Path(<<>>), Path(<<"docs">>),
     Path(<<"openapi.json">>), Path(<<"favicon.ico">>)}

\* C30: while the system is locked, a request whose path is not an exempt
\* endpoint is answered 423 and is not passed on to the application.
C30_LockedSystemBlocks ==
    [][\A path \in RequestPaths \ ExemptEndpoints, password \in Passwords :
        /\ SystemLocked
        /\ SystemLockMiddleware(path, password)
        => /\ last'.status_code = 423
           /\ ~last'.forwarded]_vars

====
